---- MODULE Spec2Model ----
(***************************************************************************)
(* TimeMNGR ("Chronos" v18, src/sw.js): the task / planning / reward /     *)
(* timer stores of the App component and the XP scoring engine, as a       *)
(* state machine.  One action per event handler; every handler runs to     *)
(* completion before the next event (React batches the state updates of    *)
(* one handler into one commit).                                           *)
(*                                                                         *)
(* Strings that the code inspects (task and goal titles, the reward cost   *)
(* typed into the form) are sequences of one-character strings, so that    *)
(* String.includes, toLowerCase, template literals and parseInt are        *)
(* computed, not assumed.  The engine's floating point products (x1.2,     *)
(* x0.8, x1.1) are computed exactly on scaled integers: task contributions *)
(* in fifths of an XP, the final product in fiftieths.                     *)
(*                                                                         *)
(* Left out: fields no handler or engine rule reads (description,          *)
(* createdAt, sub-task titles, reward icon, goal category).  The two       *)
(* modals are state: linkingTaskId and isAddingReward say which one is     *)
(* open.  Date.now() is a reading of the wall clock, which is not the      *)
(* page's: a reading is bound neither to the earlier readings nor to the   *)
(* ticks the tracker's interval has counted.                               *)
(*                                                                         *)
(* The page has a sidebar: a handler runs in the view that draws its       *)
(* control, a button of the sidebar changes the view, and the controls of  *)
(* a modal, drawn outside the views, are there in whatever view while the  *)
(* modal is open.                                                          *)
(*                                                                         *)
(* Three further specifications share the variables: the launch of v18 on  *)
(* the records localStorage holds (LoadSpec), the page of v18 opened on    *)
(* saved tasks and logs (EngineSpec), and the App of v13                   *)
(* (src/unnamed/part_000), the version whose page has the insights request *)
(* syncAI (InsightSpec).  JSON.parse and JSON.stringify are computed on    *)
(* the texts.  A render that throws unmounts the page.                     *)
(***************************************************************************)
EXTENDS Integers, Sequences, FiniteSets, TLC

VARIABLES
  tasks,          \* Task[]          (useState, sw.js:194)
  planning,       \* PlanningTask[]  (sw.js:199)
  rewards,        \* Reward[]        (sw.js:203)
  spentXP,        \* number          (sw.js:211)
  logs,           \* TimeLog[]       (sw.js:214), newest first
  timerTaskId,    \* string, "" when no block is selected (sw.js:217)
  timerRunning,   \* boolean         (sw.js:218)
  timerSeconds,   \* number          (sw.js:219)
  timerInterval,  \* TRUE while the interval whose handle timerIntervalRef
                  \* holds is scheduled (sw.js:220)
  intervals,      \* how many intervals of the page are scheduled: set by
                  \* window.setInterval and not cleared yet (sw.js:319, 323)
  timerStart,     \* timerStartRef.current (sw.js:221)
  aiResult,       \* the insight result slot, null at first (part_000:558)
  aiLoading,      \* boolean         (part_000:559)
  aiCall,         \* where the last call of syncAI is: "none" before the first,
                  \* "pending" at the await, "returned", "caught" (the catch
                  \* ran) or "threw" (it ended before the try)
  stored,         \* the localStorage records the page finds when it opens
  launch,         \* "opening", "mounted", or "crashed" when a render threw
  activeView,     \* the view the page shows (sw.js:193, part_000:385)
  linkingTaskId,  \* the block whose link modal is open, "" for null
                  \* (sw.js:224, part_000:434)
  isAddingReward  \* the reward form is open (sw.js:225)

vars == <<tasks, planning, rewards, spentXP, logs, timerTaskId, timerRunning,
          timerSeconds, timerInterval, intervals, timerStart,
          aiResult, aiLoading, aiCall, stored, launch, activeView,
          linkingTaskId, isAddingReward>>

\* the store, the tracker and the two modals
appVars == <<tasks, planning, rewards, spentXP, logs, timerTaskId, timerRunning,
             timerSeconds, timerInterval, intervals, timerStart,
             linkingTaskId, isAddingReward>>
\* the insights request
aiVars == <<aiResult, aiLoading, aiCall>>
\* what the handlers of the store never write
otherVars == <<aiResult, aiLoading, aiCall, stored, launch, activeView>>

---------------------------------------------------------------------------
(* Bounds of the model.                                                    *)

\* what a run holds on top of the starter data, counted together: goals
\* (alive or still referred to by a task), rewards (registered, or the form
\* open), redemptions, sessions (logged or running, at least one once a
\* session was started) and the tracker's selected block
MaxExtras == 2
\* the same for a page opened on saved data, where the saved logs count too
MaxSavedExtras == 3
\* ticks of one focus session
MaxSeconds == 2

---------------------------------------------------------------------------
(* Strings.                                                                *)

TitleMorningRoutine == <<"M","o","r","n","i","n","g"," ","R","o","u","t","i","n","e">>
TitleOneThing == <<"1"," ","T","h","i","n","g"," ","(","D","e","e","p","w","o","r","k",")">>
TitleTraining == <<"T","r","a","i","n","i","n","g">>
TitleBSide == <<"B"," ","S","i","d","e"," ","(","D","e","e","p","w","o","r","k",")">>
TitleFreeTime == <<"F","r","e","e"," ","T","i","m","e">>
TitleEducation == <<"E","d","u","c","a","t","i","o","n">>
TitleYoga == <<"Y","o","g","a"," ","a","n","d"," ","M","o","b","i","l","i","t","y">>
TitleNightRoutine == <<"N","i","g","h","t"," ","R","o","u","t","i","n","e">>

StrMorning == <<"M","o","r","n","i","n","g">>
StrEducationLower == <<"e","d","u","c","a","t","i","o","n">>
StrDeepworkLower == <<"d","e","e","p","w","o","r","k">>
PrefixEducation == <<"E","d","u","c","a","t","i","o","n",":"," ">>
PrefixWork == <<"W","o","r","k",":"," ">>

UpperCase == <<"A","B","C","D","E","F","G","H","I","J","K","L","M",
               "N","O","P","Q","R","S","T","U","V","W","X","Y","Z">>
LowerCase == <<"a","b","c","d","e","f","g","h","i","j","k","l","m",
               "n","o","p","q","r","s","t","u","v","w","x","y","z">>
Digits == <<"0","1","2","3","4","5","6","7","8","9">>

\* String.prototype.includes
Includes(s, sub) ==
  \/ sub = <<>>
  \/ \E i \in 0..(Len(s) - Len(sub)) :
       s[i + 1] = sub[1] /\ SubSeq(s, i + 1, i + Len(sub)) = sub

\* String.prototype.toLowerCase (ASCII letters)
ToLowerCase(s) ==
  [i \in 1..Len(s) |->
     IF \E k \in 1..26 : UpperCase[k] = s[i]
     THEN LowerCase[CHOOSE k \in 1..26 : UpperCase[k] = s[i]]
     ELSE s[i]]

RECURSIVE Sum(_)
Sum(s) == IF s = <<>> THEN 0 ELSE Head(s) + Sum(Tail(s))

Max(a, b) == IF a >= b THEN a ELSE b

---------------------------------------------------------------------------
(* Data.  An absent optional field is the falsy value the code tests for:  *)
(* xpStakes 0, linkedPlanningTaskId "", hasSubTasks FALSE (an empty        *)
(* subTasks array is truthy in JavaScript, so presence is a flag).         *)

SubTask(id, xp) == [id |-> id, completed |-> FALSE, xpValue |-> xp]

\* scheduledBlock, the hours the card of a block shows; durationHours is
\* counted in tenths of an hour (4.5 hours is 45)
Block(h, m, tenths) ==
  [startHour |-> h, startMinute |-> m, durationHours |-> tenths]

Task(id, title, priority, stakes, hasSubs, subs, block) ==
  [id |-> id, title |-> title, priority |-> priority, status |-> "todo",
   hasSubTasks |-> hasSubs, subTasks |-> subs,
   linkedPlanningTaskId |-> "", xpStakes |-> stakes,
   scheduledBlock |-> block]

getDefaultProtocol ==
  << Task("t1", TitleMorningRoutine, "HIGH", 0, TRUE,
          << SubTask("mr1", 10), SubTask("mr2", 10), SubTask("mr3", 10),
             SubTask("mr4", 10), SubTask("mr5", 10) >>, Block(5, 30, 20)),
     Task("t2", TitleOneThing, "HIGH", 100, FALSE, <<>>, Block(7, 30, 20)),
     Task("t3", TitleTraining, "MEDIUM", 0, TRUE,
          << SubTask("tr1", 10), SubTask("tr2", 10), SubTask("tr3", 10),
             SubTask("tr4", 10), SubTask("tr5", 10) >>, Block(9, 30, 20)),
     Task("t4", TitleBSide, "HIGH", 75, FALSE, <<>>, Block(11, 30, 20)),
     Task("t5", TitleFreeTime, "LOW", 0, FALSE, <<>>, Block(13, 30, 45)),
     Task("t6", TitleEducation, "MEDIUM", 50, TRUE,
          << SubTask("ed1", 15), SubTask("ed2", 15), SubTask("ed3", 20) >>,
          Block(18, 30, 10)),
     Task("t7", TitleYoga, "LOW", 50, FALSE, <<>>, Block(20, 0, 5)),
     Task("t8", TitleNightRoutine, "MEDIUM", 0, TRUE,
          << SubTask("nr1", 20), SubTask("nr2", 20), SubTask("nr3", 20) >>,
          Block(22, 0, 5)) >>

DefaultRewards ==
  << [id |-> "r1", cost |-> 100, count |-> 0],
     [id |-> "r2", cost |-> 250, count |-> 0],
     [id |-> "r3", cost |-> 1000, count |-> 0] >>

\* crypto.randomUUID(): an id that no record of the given set of ids carries
randomUUID(used) ==
  LET UuidPool == <<"u1", "u2", "u3", "u4", "u5", "u6", "u7", "u8">>
  IN UuidPool[CHOOSE i \in 1..Len(UuidPool) :
                /\ UuidPool[i] \notin used
                /\ \A j \in 1..(i - 1) : UuidPool[j] \in used]

---------------------------------------------------------------------------
(* The XP engine (useMemo, sw.js:236-268).                                 *)

completedCount(t) == Cardinality({i \in 1..Len(t.subTasks) : t.subTasks[i].completed})

\* variant of taskBase that looks at the sub-tasks before the stake
taskBaseSubTasksFirst(t) ==
  IF t.hasSubTasks THEN
    LET cc == completedCount(t)
        allDone == cc = Len(t.subTasks)
        noneDone == cc = 0
    IN IF Includes(t.title, TitleNightRoutine)
       THEN cc * 20 + (IF allDone THEN 40 ELSE 0) - (IF noneDone THEN 50 ELSE 0)
       ELSE IF \/ Includes(t.title, StrMorning)
               \/ Includes(t.title, TitleTraining)
               \/ Includes(t.title, TitleEducation)
       THEN cc * 10 + (IF allDone THEN 25 ELSE 0) - (IF noneDone THEN 25 ELSE 0)
       ELSE cc * 10
  ELSE IF t.xpStakes # 0 THEN
    IF t.status = "done" THEN t.xpStakes
    ELSE IF t.status = "todo" THEN 0 - t.xpStakes
    ELSE 0
  ELSE (IF t.status = "done" THEN 50 ELSE 0)
       + (IF t.status = "partial" THEN 20 ELSE 0)

\* taskBase before the priority multiplier (sw.js:239-257)
taskBase(t) ==
  IF t.xpStakes # 0 THEN
    IF t.status = "done" THEN t.xpStakes
    ELSE IF t.status = "todo" THEN 0 - t.xpStakes
    ELSE 0
  ELSE IF t.hasSubTasks THEN
    LET cc == completedCount(t)
        allDone == cc = Len(t.subTasks)
        noneDone == cc = 0
    IN IF Includes(t.title, TitleNightRoutine)
       THEN cc * 20 + (IF allDone THEN 40 ELSE 0) - (IF noneDone THEN 50 ELSE 0)
       ELSE IF \/ Includes(t.title, StrMorning)
               \/ Includes(t.title, TitleTraining)
               \/ Includes(t.title, TitleEducation)
       THEN cc * 10 + (IF allDone THEN 25 ELSE 0) - (IF noneDone THEN 25 ELSE 0)
       ELSE cc * 10
  ELSE (IF t.status = "done" THEN 50 ELSE 0)
       + (IF t.status = "partial" THEN 20 ELSE 0)

\* the priority factor in fifths: x1.2, x0.8, x1 (sw.js:259-260)
priorityFifths(p) == IF p = "HIGH" THEN 6 ELSE IF p = "LOW" THEN 4 ELSE 5

\* variant of taskXP5 that multiplies whatever the sign and the status
taskXP5Unconditional(t) == taskBase(t) * priorityFifths(t.priority)

\* five times the amount the task adds to rawXP (sw.js:258-262)
taskXP5(t) ==
  LET base == taskBase(t)
  IN IF base > 0 /\ t.status = "done"
     THEN base * priorityFifths(t.priority)
     ELSE base * 5

rawXP5(ts) == Sum([i \in 1..Len(ts) |-> taskXP5(ts[i])])

\* variant of focusBonus that floors each log on its own
focusBonusPerLog(ls) == Sum([i \in 1..Len(ls) |-> ls[i].duration \div 1800]) * 5

\* sw.js:264
focusBonus(ls) == (Sum([i \in 1..Len(ls) |-> ls[i].duration]) \div 1800) * 5

\* variant of adherenceTenths with a strict threshold
adherenceTenthsStrict(ts) ==
  LET done == Cardinality({i \in 1..Len(ts) : ts[i].status = "done"})
  IN IF Len(ts) > 0 /\ 5 * done > 4 * Len(ts) THEN 11 ELSE 10

\* adherenceMultiplier in tenths: 11 when done/length >= 0.8 (sw.js:265-266)
adherenceTenths(ts) ==
  LET done == Cardinality({i \in 1..Len(ts) : ts[i].status = "done"})
  IN IF Len(ts) > 0 /\ 5 * done >= 4 * Len(ts) THEN 11 ELSE 10

\* Math.round rounds halves up; q is the value in fiftieths
roundFiftieths(q) == (q + 25) \div 50

\* variant of totalXP that multiplies rawXP alone and adds the bonus after
totalXPBonusAfter(ts, ls) ==
  Max(0, roundFiftieths(rawXP5(ts) * adherenceTenths(ts) + 50 * focusBonus(ls)))

\* variant of totalXP without the Math.max(0, ...) floor
totalXPUnclamped(ts, ls) ==
  roundFiftieths((rawXP5(ts) + 5 * focusBonus(ls)) * adherenceTenths(ts))

\* sw.js:267
totalXP(ts, ls) ==
  Max(0, roundFiftieths((rawXP5(ts) + 5 * focusBonus(ls)) * adherenceTenths(ts)))

\* sw.js:270
currentBalance == totalXP(tasks, logs) - spentXP

---------------------------------------------------------------------------
(* Inputs of the handlers.                                                 *)

\* tasks whose status button and sub-task buttons the user presses
TaskInputs == {"t2", "t4", "t8"}
\* tasks on which the user opens "Import Mission"
LinkTaskInputs == {"t8"}
\* blocks the user picks in the tracker's select
TimerTaskInputs == {"t8"}
\* text typed into #planInput
GoalTitleInputs == { <<>>, <<"M","V","P">> }
\* text typed into #rewTitle and #rewCost, as pairs <<title, cost>>
RewardInputs ==
  { << <<"N","a","p">>, <<"-","5">> >>,
    << <<"N","a","p">>, <<"0">> >>,
    << <<"N","a","p">>, <<>> >>,
    << <<>>, <<"-","5">> >> }
\* ids no record carries
UnknownRewardId == "r0"
UnknownGoalId == "g0"

\* a plain HIGH block, none of the starter protocol
PlainHighTask ==
  Task("t9", <<"F","o","c","u","s">>, "HIGH", 0, FALSE, <<>>, Block(9, 0, 10))

\* parseInt(s): optional blanks, optional sign, then the longest run of
\* decimal digits; NaN when there is no digit
isDigit(c) == \E k \in 1..10 : Digits[k] = c
digitValue(c) == (CHOOSE k \in 1..10 : Digits[k] = c) - 1

RECURSIVE skipBlanks(_)
skipBlanks(s) == IF s # <<>> /\ Head(s) = " " THEN skipBlanks(Tail(s)) ELSE s

RECURSIVE digitRun(_, _)
digitRun(s, acc) ==
  IF s # <<>> /\ isDigit(Head(s))
  THEN digitRun(Tail(s), acc * 10 + digitValue(Head(s)))
  ELSE acc

parseInt(str) ==
  LET s == skipBlanks(str)
      neg == s # <<>> /\ Head(s) = "-"
      body == IF s # <<>> /\ Head(s) \in {"-", "+"} THEN Tail(s) ELSE s
  IN IF body = <<>> \/ ~isDigit(Head(body))
     THEN [isNaN |-> TRUE, value |-> 0]
     ELSE [isNaN |-> FALSE,
           value |-> IF neg THEN 0 - digitRun(body, 0) ELSE digitRun(body, 0)]

---------------------------------------------------------------------------
(* JSON.parse on the texts the model feeds it: objects, arrays, strings    *)
(* without escapes, numbers without exponent, true, false and null, blanks *)
(* between tokens.  A parsed value is a record of one shape whatever its   *)
(* kind.                                                                   *)

JsonValue(kind, num, str, keys, items) ==
  [kind |-> kind, num |-> num, str |-> str, keys |-> keys, items |-> items]
JsonNull == JsonValue("null", 0, <<>>, <<>>, <<>>)
JsonNumber(n) == JsonValue("number", n, <<>>, <<>>, <<>>)
JsonString(str) == JsonValue("string", 0, str, <<>>, <<>>)
JsonArray(items) == JsonValue("array", 0, <<>>, <<>>, items)
JsonObject(keys, items) == JsonValue("object", 0, <<>>, keys, items)

\* the outcome of reading one value: ok, the value, the text that follows
Parsed(value, rest) == [ok |-> TRUE, value |-> value, rest |-> rest]
SyntaxError == [ok |-> FALSE, value |-> JsonNull, rest |-> <<>>]

StartsWith(s, word) == Len(s) >= Len(word) /\ SubSeq(s, 1, Len(word)) = word

RECURSIVE dropDigits(_)
dropDigits(s) == IF s # <<>> /\ isDigit(Head(s)) THEN dropDigits(Tail(s)) ELSE s

\* a string once its opening quote is read
RECURSIVE parseChars(_, _)
parseChars(s, acc) ==
  IF s = <<>> \/ Head(s) = "\\" THEN SyntaxError
  ELSE IF Head(s) = "\"" THEN Parsed(JsonString(acc), Tail(s))
  ELSE parseChars(Tail(s), Append(acc, Head(s)))

\* a number: the whole part in num and, after a point, the digits of the
\* fraction in str
parseNumber(s) ==
  LET neg == Head(s) = "-"
      body == IF neg THEN Tail(s) ELSE s
      whole == IF neg THEN 0 - digitRun(body, 0) ELSE digitRun(body, 0)
      rest == dropDigits(body)
      fraction == SubSeq(rest, 2, Len(rest) - Len(dropDigits(Tail(rest))))
  IN IF body = <<>> \/ ~isDigit(Head(body)) THEN SyntaxError
     ELSE IF Head(body) = "0" /\ Len(body) > 1 /\ isDigit(body[2]) THEN SyntaxError
     ELSE IF rest = <<>> \/ Head(rest) # "." THEN Parsed(JsonNumber(whole), rest)
     ELSE IF fraction = <<>> THEN SyntaxError
     ELSE Parsed(JsonValue("number", whole, fraction, <<>>, <<>>),
                 dropDigits(Tail(rest)))

RECURSIVE parseValue(_), parseElements(_, _), parseMembers(_, _, _)
parseValue(text) ==
  LET s == skipBlanks(text)
  IN IF s = <<>> THEN SyntaxError
     ELSE IF Head(s) = "{" THEN
       IF skipBlanks(Tail(s)) # <<>> /\ Head(skipBlanks(Tail(s))) = "}"
       THEN Parsed(JsonObject(<<>>, <<>>), Tail(skipBlanks(Tail(s))))
       ELSE parseMembers(Tail(s), <<>>, <<>>)
     ELSE IF Head(s) = "[" THEN
       IF skipBlanks(Tail(s)) # <<>> /\ Head(skipBlanks(Tail(s))) = "]"
       THEN Parsed(JsonArray(<<>>), Tail(skipBlanks(Tail(s))))
       ELSE parseElements(Tail(s), <<>>)
     ELSE IF Head(s) = "\"" THEN parseChars(Tail(s), <<>>)
     ELSE IF StartsWith(s, <<"t","r","u","e">>)
       THEN Parsed(JsonValue("true", 0, <<>>, <<>>, <<>>), SubSeq(s, 5, Len(s)))
     ELSE IF StartsWith(s, <<"f","a","l","s","e">>)
       THEN Parsed(JsonValue("false", 0, <<>>, <<>>, <<>>), SubSeq(s, 6, Len(s)))
     ELSE IF StartsWith(s, <<"n","u","l","l">>)
       THEN Parsed(JsonNull, SubSeq(s, 5, Len(s)))
     ELSE parseNumber(s)

\* the elements of an array after "[" or ","
parseElements(text, acc) ==
  LET v == parseValue(text)
      s == skipBlanks(v.rest)
  IN IF ~v.ok \/ s = <<>> THEN SyntaxError
     ELSE IF Head(s) = "," THEN parseElements(Tail(s), Append(acc, v.value))
     ELSE IF Head(s) = "]" THEN Parsed(JsonArray(Append(acc, v.value)), Tail(s))
     ELSE SyntaxError

\* the members of an object after "{" or ","
parseMembers(text, keys, items) ==
  LET s == skipBlanks(text)
      k == IF s # <<>> /\ Head(s) = "\"" THEN parseChars(Tail(s), <<>>) ELSE SyntaxError
      c == skipBlanks(k.rest)
      v == IF k.ok /\ c # <<>> /\ Head(c) = ":" THEN parseValue(Tail(c)) ELSE SyntaxError
      e == skipBlanks(v.rest)
  IN IF ~v.ok \/ e = <<>> THEN SyntaxError
     ELSE IF Head(e) = ","
       THEN parseMembers(Tail(e), Append(keys, k.value.str), Append(items, v.value))
     ELSE IF Head(e) = "}"
       THEN Parsed(JsonObject(Append(keys, k.value.str), Append(items, v.value)), Tail(e))
     ELSE SyntaxError

\* JSON.parse(text): the value, or throws when the text is not one JSON value
JSONparse(text) ==
  LET v == parseValue(text)
  IN IF v.ok /\ skipBlanks(v.rest) = <<>>
     THEN [throws |-> FALSE, value |-> v.value]
     ELSE [throws |-> TRUE, value |-> JsonNull]

\* obj[key] of a parsed object; JsonNull stands for undefined as well
HasKey(v, key) == v.kind = "object" /\ \E i \in 1..Len(v.keys) : v.keys[i] = key
Get(v, key) ==
  IF HasKey(v, key)
  THEN v.items[CHOOSE i \in 1..Len(v.keys) :
                 /\ v.keys[i] = key
                 /\ \A j \in (i + 1)..Len(v.keys) : v.keys[j] # key]
  ELSE JsonNull

\* null and undefined: reading a property of one, or calling a method on
\* one, throws a TypeError
isNullish(v) == v.kind = "null"

\* what React accepts between tags: anything but a plain object ("Objects
\* are not valid as a React child"); an array is rendered item by item
RECURSIVE isReactChild(_)
isReactChild(v) ==
  IF v.kind = "object" THEN FALSE
  ELSE IF v.kind = "array" THEN \A i \in 1..Len(v.items) : isReactChild(v.items[i])
  ELSE TRUE

---------------------------------------------------------------------------
(* localStorage at the moment the page opens.                              *)

\* localStorage.getItem(key): null, or the string under the key, char by char
NoItem == [found |-> FALSE, text |-> <<>>]
Item(text) == [found |-> TRUE, text |-> text]

\* a browser that holds none of the five records
NothingStored ==
  [tasks |-> NoItem, plan |-> NoItem, rewards |-> NoItem, spent |-> NoItem,
   logs |-> NoItem]

---------------------------------------------------------------------------
(* State functions.                                                        *)

TaskIds == {tasks[i].id : i \in 1..Len(tasks)}
GoalIds == {planning[i].id : i \in 1..Len(planning)}
RewardIds == {rewards[i].id : i \in 1..Len(rewards)}
TaskOf(id) == tasks[CHOOSE i \in 1..Len(tasks) : tasks[i].id = id]
GoalOf(id) == planning[CHOOSE i \in 1..Len(planning) : planning[i].id = id]
RewardOf(id) == rewards[CHOOSE i \in 1..Len(rewards) : rewards[i].id = id]

\* every id a record of the state carries or refers to
UsedIds ==
  GoalIds \cup RewardIds
  \cup {tasks[i].linkedPlanningTaskId : i \in 1..Len(tasks)}
  \cup {logs[i].id : i \in 1..Len(logs)}

\* the readings of the wall clock the model draws from, in ms since the page
\* was opened
Instants == {650, 1813}

\* Date.now() (sw.js:317, 326): what the wall clock shows when a handler
\* reads it.  Nothing ties the clock to the interval or to what it showed
\* before (it may be set back between two readings): a reading is any instant
Now == Instants

\* what the persistence effect has written once a commit is done (sw.js:227-233)
Persisted ==
  [tasks |-> tasks, plan |-> planning, logs |-> logs,
   rewards |-> rewards, spent |-> spentXP]

---------------------------------------------------------------------------
(* Task handlers.                                                          *)

\* variant of nextStatus in which done is terminal
nextStatusTerminal(s) == IF s = "todo" THEN "partial" ELSE "done"

\* next of cycleStatus (sw.js:297)
nextStatus(s) ==
  IF s = "todo" THEN "partial" ELSE IF s = "partial" THEN "done" ELSE "todo"

\* variant of cycleTask that leaves the sub-task flags alone
cycleTaskStatusOnly(t) == [t EXCEPT !.status = nextStatus(t.status)]

\* the record cycleStatus returns for the task it was called on (sw.js:297-301)
cycleTask(t) ==
  [t EXCEPT !.status = nextStatus(t.status),
            !.subTasks = [i \in 1..Len(t.subTasks) |->
                            [t.subTasks[i] EXCEPT
                               !.completed = (nextStatus(t.status) = "done")]]]

\* variant of completeGoal that flips the flag
completeGoalFlips(pp, goalId) ==
  [i \in 1..Len(pp) |->
     IF pp[i].id = goalId THEN [pp[i] EXCEPT !.completed = ~pp[i].completed]
     ELSE pp[i]]

\* setPlanning(pp => pp.map(...)) of cycleStatus (sw.js:298-300)
completeGoal(pp, goalId) ==
  [i \in 1..Len(pp) |->
     IF pp[i].id = goalId THEN [pp[i] EXCEPT !.completed = TRUE] ELSE pp[i]]

cycleStatus(id) ==
  /\ id \in TaskIds
  /\ UNCHANGED <<rewards, spentXP, logs, timerTaskId, timerRunning,
                 timerSeconds, timerInterval, intervals, timerStart,
                 linkingTaskId, isAddingReward>>
  /\ tasks' = [i \in 1..Len(tasks) |->
                 IF tasks[i].id = id THEN cycleTask(tasks[i]) ELSE tasks[i]]
  /\ planning' =
       LET t == TaskOf(id)
       IN IF t.linkedPlanningTaskId # "" /\ nextStatus(t.status) = "done"
          THEN completeGoal(planning, t.linkedPlanningTaskId)
          ELSE planning

\* variant of toggleTask that flips the flag and keeps the stored status
\* (toggleSub of v10, index.tsx:94-135)
toggleTaskKeepStatus(t, sid) ==
  [t EXCEPT !.subTasks = [i \in 1..Len(t.subTasks) |->
                            IF t.subTasks[i].id = sid
                            THEN [t.subTasks[i] EXCEPT
                                    !.completed = ~t.subTasks[i].completed]
                            ELSE t.subTasks[i]]]

\* the record the sub-task button's onClick returns for its task (sw.js:403-407)
toggleTask(t, sid) ==
  LET ns == [i \in 1..Len(t.subTasks) |->
               IF t.subTasks[i].id = sid
               THEN [t.subTasks[i] EXCEPT !.completed = ~t.subTasks[i].completed]
               ELSE t.subTasks[i]]
      allDone == \A i \in 1..Len(ns) : ns[i].completed
      someDone == \E i \in 1..Len(ns) : ns[i].completed
  IN [t EXCEPT !.subTasks = ns,
               !.status = IF allDone THEN "done"
                          ELSE IF someDone THEN "partial" ELSE "todo"]

\* a sub-task button exists for every sub-task of a task that has them (sw.js:398-401)
toggleSub(tid, sid) ==
  /\ tid \in TaskIds
  /\ TaskOf(tid).hasSubTasks
  /\ \E i \in 1..Len(TaskOf(tid).subTasks) : TaskOf(tid).subTasks[i].id = sid
  /\ UNCHANGED <<planning, rewards, spentXP, logs, timerTaskId, timerRunning,
                 timerSeconds, timerInterval, intervals, timerStart,
                 linkingTaskId, isAddingReward>>
  /\ tasks' = [i \in 1..Len(tasks) |->
                 IF tasks[i].id = tid THEN toggleTask(tasks[i], sid) ELSE tasks[i]]

---------------------------------------------------------------------------
(* Planning handlers.                                                      *)

\* "Deploy Mission" onClick (sw.js:429-433)
createGoal(title) ==
  /\ IF title # <<>>
     THEN planning' = << [id |-> randomUUID(UsedIds), title |-> title,
                          completed |-> FALSE, subTasks |-> <<>>] >> \o planning
     ELSE planning' = planning
  /\ UNCHANGED <<tasks, rewards, spentXP, logs, timerTaskId, timerRunning,
                 timerSeconds, timerInterval, intervals, timerStart,
                 linkingTaskId, isAddingReward>>

\* the goal card's delete button (sw.js:441)
deleteGoal(id) ==
  /\ id \in GoalIds
  /\ planning' = SelectSeq(planning, LAMBDA p : p.id # id)
  /\ UNCHANGED <<tasks, rewards, spentXP, logs, timerTaskId, timerRunning,
                 timerSeconds, timerInterval, intervals, timerStart,
                 linkingTaskId, isAddingReward>>

\* finalTitle of handleLinkGoal (sw.js:279-281)
finalTitle(t, goal) ==
  IF Includes(ToLowerCase(t.title), StrEducationLower) THEN PrefixEducation \o goal.title
  ELSE IF Includes(ToLowerCase(t.title), StrDeepworkLower) THEN PrefixWork \o goal.title
  ELSE goal.title

\* the record handleLinkGoal returns for the task it links (sw.js:278-288)
linkTask(t, goal) ==
  [t EXCEPT !.title = finalTitle(t, goal),
            !.linkedPlanningTaskId = goal.id,
            !.hasSubTasks = IF Len(goal.subTasks) > 0 THEN TRUE ELSE t.hasSubTasks,
            !.subTasks = IF Len(goal.subTasks) > 0 THEN goal.subTasks ELSE t.subTasks]

\* "Import Mission", drawn in the schedule view on the blocks without a link:
\* the modal opens on the block (sw.js:387-394)
importMission(taskId) ==
  /\ taskId \in TaskIds
  /\ TaskOf(taskId).linkedPlanningTaskId = ""
  /\ linkingTaskId' = taskId
  /\ UNCHANGED <<tasks, planning, rewards, spentXP, logs, timerTaskId,
                 timerRunning, timerSeconds, timerInterval, intervals, timerStart,
                 isAddingReward>>

\* "Abort Assign", a button of the open modal (sw.js:503, 525)
abortAssign ==
  /\ linkingTaskId # ""
  /\ linkingTaskId' = ""
  /\ UNCHANGED <<tasks, planning, rewards, spentXP, logs, timerTaskId,
                 timerRunning, timerSeconds, timerInterval, intervals, timerStart,
                 isAddingReward>>

\* a goal button of the modal, which is open on a block without a link and
\* lists the goals that are not completed (sw.js:503-511); the handler
\* returns early on a goal id that planning does not hold (sw.js:275-276)
\* and closes the modal otherwise (sw.js:291)
handleLinkGoal(taskId, goalId) ==
  /\ taskId \in TaskIds
  /\ TaskOf(taskId).linkedPlanningTaskId = ""
  /\ goalId \in GoalIds => ~GoalOf(goalId).completed
  /\ IF goalId \in GoalIds
     THEN tasks' = [i \in 1..Len(tasks) |->
                      IF tasks[i].id = taskId
                      THEN linkTask(tasks[i], GoalOf(goalId)) ELSE tasks[i]]
     ELSE tasks' = tasks
  /\ linkingTaskId' = IF goalId \in GoalIds THEN "" ELSE linkingTaskId
  /\ UNCHANGED <<planning, rewards, spentXP, logs, timerTaskId, timerRunning,
                 timerSeconds, timerInterval, intervals, timerStart,
                 isAddingReward>>

---------------------------------------------------------------------------
(* Reward handlers.                                                        *)

\* variant of claimReward that counts a claim twice
claimRewardTwice(rr, id) ==
  [i \in 1..Len(rr) |->
     IF rr[i].id = id THEN [rr[i] EXCEPT !.count = rr[i].count + 2] ELSE rr[i]]

\* variant of claimReward that counts nothing
claimRewardNone(rr, id) == rr

\* the reward list buyReward writes (sw.js:311)
claimReward(rr, id) ==
  [i \in 1..Len(rr) |->
     IF rr[i].id = id THEN [rr[i] EXCEPT !.count = rr[i].count + 1] ELSE rr[i]]

\* variant of canBuy that does not look at the balance
canBuyAnyBalance(id) == id \in RewardIds

\* the guard of buyReward (sw.js:308-309)
canBuy(id) == id \in RewardIds /\ currentBalance >= RewardOf(id).cost

\* variant of buyReward that commits setSpentXP alone
buyRewardSpendOnly(id) ==
  /\ canBuy(id)
  /\ spentXP' = spentXP + RewardOf(id).cost
  /\ UNCHANGED <<rewards, tasks, planning, logs, timerTaskId, timerRunning,
                 timerSeconds, timerInterval, intervals, timerStart,
                 linkingTaskId, isAddingReward>>

\* sw.js:307-313
buyReward(id) ==
  LET ok == canBuy(id)
  IN /\ UNCHANGED <<tasks, planning, logs, timerTaskId, timerRunning,
                    timerSeconds, timerInterval, intervals, timerStart,
                    linkingTaskId, isAddingReward>>
     /\ IF ok
        THEN /\ spentXP' = spentXP + RewardOf(id).cost
             /\ rewards' = claimReward(rewards, id)
        ELSE UNCHANGED <<spentXP, rewards>>

\* "Construct Reward", drawn in the shop view: the form opens (sw.js:455)
constructReward ==
  /\ isAddingReward' = TRUE
  /\ UNCHANGED <<tasks, planning, rewards, spentXP, logs, timerTaskId,
                 timerRunning, timerSeconds, timerInterval, intervals, timerStart,
                 linkingTaskId>>

\* "Cancel", a button of the open form (sw.js:530, 553)
cancelReward ==
  /\ isAddingReward
  /\ isAddingReward' = FALSE
  /\ UNCHANGED <<tasks, planning, rewards, spentXP, logs, timerTaskId,
                 timerRunning, timerSeconds, timerInterval, intervals, timerStart,
                 linkingTaskId>>

\* "Register Upgrade", a button of the open form (sw.js:530, 544-552): on
\* t && c the reward is added and the form closes
addReward(title, costText) ==
  LET c == parseInt(costText)
      accepted == title # <<>> /\ ~c.isNaN /\ c.value # 0
  IN /\ isAddingReward
     /\ IF accepted
        THEN /\ rewards' = Append(rewards, [id |-> randomUUID(UsedIds),
                                            cost |-> c.value, count |-> 0])
             /\ isAddingReward' = FALSE
        ELSE UNCHANGED <<rewards, isAddingReward>>
     /\ UNCHANGED <<tasks, planning, spentXP, logs, timerTaskId, timerRunning,
                    timerSeconds, timerInterval, intervals, timerStart,
                    linkingTaskId>>

---------------------------------------------------------------------------
(* Timer handlers.                                                         *)

\* the select's onChange; it is rendered while the timer is idle and offers
\* "" and the tasks that are not done (sw.js:485-488)
selectTimerTask(v) ==
  /\ ~timerRunning
  /\ v = "" \/ (v \in TaskIds /\ TaskOf(v).status # "done")
  /\ timerTaskId' = v
  /\ UNCHANGED <<tasks, planning, rewards, spentXP, logs, timerRunning,
                 timerSeconds, timerInterval, intervals, timerStart,
                 linkingTaskId, isAddingReward>>

\* variant of startTimer without the early return on an empty selection
startTimerUnchecked ==
  /\ ~timerRunning
  /\ timerStart' \in Now
  /\ timerRunning' = TRUE
  /\ timerInterval' = TRUE
  /\ intervals' = intervals + 1
  /\ UNCHANGED <<tasks, planning, rewards, spentXP, logs, timerTaskId,
                 timerSeconds, linkingTaskId, isAddingReward>>

\* sw.js:315-320; the start button is rendered while the timer is idle
\* (sw.js:492).  The handle of the new interval goes to timerIntervalRef
startTimer ==
  /\ ~timerRunning
  /\ IF timerTaskId = ""
     THEN UNCHANGED <<timerStart, timerRunning, timerInterval, intervals>>
     ELSE /\ timerStart' \in Now
          /\ timerRunning' = TRUE
          /\ timerInterval' = TRUE
          /\ intervals' = intervals + 1
  /\ UNCHANGED <<tasks, planning, rewards, spentXP, logs, timerTaskId,
                 timerSeconds, linkingTaskId, isAddingReward>>

\* the callback of a scheduled interval (sw.js:319)
tick ==
  /\ intervals > 0
  /\ timerSeconds < MaxSeconds
  /\ timerSeconds' = timerSeconds + 1
  /\ UNCHANGED <<tasks, planning, rewards, spentXP, logs, timerTaskId,
                 timerRunning, timerInterval, intervals, timerStart,
                 linkingTaskId, isAddingReward>>

\* the record stopTimer logs when the clock shows now (sw.js:326)
sessionLog(now) ==
  [id |-> randomUUID(UsedIds),
   taskId |-> TaskOf(timerTaskId).id,
   taskTitle |-> TaskOf(timerTaskId).title,
   startTime |-> timerStart, endTime |-> now,
   duration |-> timerSeconds]

\* variant of stopTimer that logs a session of zero seconds too
stopTimerLogsEmpty ==
  /\ timerRunning
  /\ timerInterval' = FALSE
  /\ intervals' = IF timerInterval THEN intervals - 1 ELSE intervals
  /\ IF timerTaskId \in TaskIds
     THEN \E now \in Now : logs' = <<sessionLog(now)>> \o logs
     ELSE logs' = logs
  /\ timerRunning' = FALSE
  /\ timerSeconds' = 0
  /\ UNCHANGED <<tasks, planning, rewards, spentXP, timerTaskId, timerStart,
                 linkingTaskId, isAddingReward>>

\* variant of stopTimer without clearInterval
stopTimerKeepsInterval ==
  /\ timerRunning
  /\ IF timerTaskId \in TaskIds /\ timerSeconds > 0
     THEN \E now \in Now : logs' = <<sessionLog(now)>> \o logs
     ELSE logs' = logs
  /\ timerRunning' = FALSE
  /\ timerSeconds' = 0
  /\ UNCHANGED <<tasks, planning, rewards, spentXP, timerTaskId, timerStart,
                 timerInterval, intervals, linkingTaskId, isAddingReward>>

\* variant of stopTimer that writes the new log alone: setLogs([log])
stopTimerReplacesLogs ==
  /\ timerRunning
  /\ timerInterval' = FALSE
  /\ intervals' = IF timerInterval THEN intervals - 1 ELSE intervals
  /\ IF timerTaskId \in TaskIds /\ timerSeconds > 0
     THEN \E now \in Now : logs' = <<sessionLog(now)>>
     ELSE logs' = logs
  /\ timerRunning' = FALSE
  /\ timerSeconds' = 0
  /\ UNCHANGED <<tasks, planning, rewards, spentXP, timerTaskId, timerStart,
                 linkingTaskId, isAddingReward>>

\* sw.js:322-330; the stop button is rendered while the timer runs
\* (sw.js:495).  clearInterval takes the interval of timerIntervalRef off
\* the schedule; the new log goes in front of the others
stopTimer ==
  /\ timerRunning
  /\ timerInterval' = FALSE
  /\ intervals' = IF timerInterval THEN intervals - 1 ELSE intervals
  /\ IF timerTaskId \in TaskIds /\ timerSeconds > 0
     THEN \E now \in Now : logs' = <<sessionLog(now)>> \o logs
     ELSE logs' = logs
  /\ timerRunning' = FALSE
  /\ timerSeconds' = 0
  /\ UNCHANGED <<tasks, planning, rewards, spentXP, timerTaskId, timerStart,
                 linkingTaskId, isAddingReward>>

---------------------------------------------------------------------------
(* The state machine.                                                      *)

\* the size of what the state holds on top of the starter data; a session
\* that runs counts like the log it may leave, and the open reward form like
\* the reward it may register
Extras ==
  Cardinality(GoalIds
              \cup ({tasks[i].linkedPlanningTaskId : i \in 1..Len(tasks)} \ {""}))
  + (Len(rewards) - Len(DefaultRewards))
  + Sum([i \in 1..Len(rewards) |-> rewards[i].count])
  + Max(Len(logs) + (IF timerRunning THEN 1 ELSE 0),
        IF timerStart # 0 THEN 1 ELSE 0)
  + (IF timerTaskId # "" THEN 1 ELSE 0)
  + (IF isAddingReward THEN 1 ELSE 0)

\* first launch: nothing in localStorage (sw.js:194-221)
Init ==
  /\ tasks = getDefaultProtocol
  /\ planning = <<>>
  /\ rewards = DefaultRewards
  /\ spentXP = 0
  /\ logs = <<>>
  /\ timerTaskId = ""
  /\ timerRunning = FALSE
  /\ timerSeconds = 0
  /\ timerInterval = FALSE
  /\ intervals = 0
  /\ timerStart = 0
  /\ aiResult = JsonNull
  /\ aiLoading = FALSE
  /\ aiCall = "none"
  /\ stored = NothingStored
  /\ launch = "mounted"
  /\ activeView = "schedule"
  /\ linkingTaskId = ""
  /\ isAddingReward = FALSE

\* the views of the sidebar (sw.js:13, 125-132)
Views == {"schedule", "planning", "tracker", "shop", "dashboard", "insights"}

\* a button of the sidebar (sw.js:145, 179, 193); the modals stay as they are
setActiveView(view) ==
  /\ activeView' = view
  /\ UNCHANGED <<aiResult, aiLoading, aiCall, stored, launch>>
  /\ UNCHANGED appVars

\* a handler of the page runs, within the bound; no handler of the store
\* writes the view
OnPage(handler) ==
  /\ handler
  /\ Extras' <= (IF stored = NothingStored THEN MaxExtras ELSE MaxSavedExtras)
  /\ UNCHANGED otherVars

\* a handler whose control is drawn in one view only (sw.js:364, 423, 450, 476)
InView(view, handler) == activeView = view /\ OnPage(handler)

\* sw.js v18 has no insights request, and the launch is over.  The two modals
\* are drawn outside the views (sw.js:503, 530): once open, their buttons are
\* there in every view; the interval fires in every view
Next ==
  \/ \E id \in TaskInputs : InView("schedule", cycleStatus(id))
  \/ \E tid \in TaskInputs :
       \E i \in 1..Len(TaskOf(tid).subTasks) :
         InView("schedule", toggleSub(tid, TaskOf(tid).subTasks[i].id))
  \/ \E tid \in LinkTaskInputs : InView("schedule", importMission(tid))
  \/ \E gid \in GoalIds \cup {UnknownGoalId} :
       OnPage(handleLinkGoal(linkingTaskId, gid))
  \/ OnPage(abortAssign)
  \/ \E title \in GoalTitleInputs : InView("planning", createGoal(title))
  \/ \E id \in GoalIds : InView("planning", deleteGoal(id))
  \/ \E id \in RewardIds \cup {UnknownRewardId} : InView("shop", buyReward(id))
  \/ InView("shop", constructReward)
  \/ \E in \in RewardInputs : OnPage(addReward(in[1], in[2]))
  \/ OnPage(cancelReward)
  \/ \E v \in TimerTaskInputs \cup {""} : InView("tracker", selectTimerTask(v))
  \/ InView("tracker", startTimer)
  \/ OnPage(tick)
  \/ InView("tracker", stopTimer)
  \/ \E view \in Views : setActiveView(view)

Spec == Init /\ [][Next]_vars

---------------------------------------------------------------------------
(* The insights request of v13 (part_000:384-585): the store of that       *)
(* version (tasks, planning, logs, tracker; no rewards), its handlers, and *)
(* syncAI, the one handler that awaits.  cycleStatus, toggleSub, the goal  *)
(* buttons and the tracker are the code of sw.js line for line.            *)

TitleLaunch == <<"L","a","u","n","c","h"," ","Q","1"," ","M","V","P">>
TitleModule ==
  <<"A","I"," ","M","o","d","u","l","e"," ","I","n","t","e","g","r","a","t","i","o","n">>

\* the starter blocks of v13: Education is a plain stake (part_000:386-416)
DefaultProtocol13 ==
  [i \in 1..Len(getDefaultProtocol) |->
     IF getDefaultProtocol[i].id = "t6"
     THEN Task("t6", TitleEducation, "MEDIUM", 50, FALSE, <<>>, Block(18, 30, 10))
     ELSE getDefaultProtocol[i]]

\* part_000:417-423
DefaultPlanning13 ==
  << [id |-> "p1", title |-> TitleLaunch, completed |-> FALSE, subTasks |-> <<>>],
     [id |-> "p2", title |-> TitleModule, completed |-> FALSE, subTasks |-> <<>>] >>

\* taskXP of the totalXP reducer (part_000:444-475)
taskXP13(t) ==
  IF t.xpStakes # 0 THEN
    IF t.status = "done" THEN t.xpStakes
    ELSE IF t.status = "todo" THEN 0 - t.xpStakes
    ELSE 0
  ELSE IF t.hasSubTasks THEN
    LET cc == completedCount(t)
        allDone == cc = Len(t.subTasks)
        noneDone == cc = 0
    IN IF t.title = TitleNightRoutine
       THEN cc * 20 + (IF allDone THEN 40 ELSE 0) - (IF noneDone THEN 50 ELSE 0)
       ELSE IF t.title = TitleMorningRoutine \/ t.title = TitleTraining
       THEN cc * 10 + (IF allDone THEN 25 ELSE 0) - (IF noneDone THEN 25 ELSE 0)
       ELSE cc * 10
  ELSE (IF t.status = "done" THEN 50 ELSE 0) + (IF t.status = "partial" THEN 20 ELSE 0)

\* part_000:442-477
totalXP13(ts) == Sum([i \in 1..Len(ts) |-> taskXP13(ts[i])])

\* "Mount Mission", drawn in the schedule view on the stake blocks without a
\* link: the modal opens on the block (part_000:625-627)
mountMission(taskId) ==
  /\ taskId \in TaskIds
  /\ TaskOf(taskId).xpStakes # 0
  /\ importMission(taskId)

\* a goal button of the modal, which is open on a stake block without a link
\* and lists the goals that are not completed (part_000:794-802); the modal
\* closes (part_000:517)
handleLinkGoal13(taskId, goalId) ==
  /\ taskId \in TaskIds
  /\ TaskOf(taskId).xpStakes # 0
  /\ TaskOf(taskId).linkedPlanningTaskId = ""
  /\ goalId \in GoalIds
  /\ ~GoalOf(goalId).completed
  /\ tasks' = [i \in 1..Len(tasks) |->
                 IF tasks[i].id = taskId
                 THEN [tasks[i] EXCEPT
                         !.title = GoalOf(goalId).title,
                         !.linkedPlanningTaskId = goalId,
                         !.hasSubTasks = IF Len(GoalOf(goalId).subTasks) > 0
                                         THEN TRUE ELSE tasks[i].hasSubTasks,
                         !.subTasks = IF Len(GoalOf(goalId).subTasks) > 0
                                      THEN GoalOf(goalId).subTasks
                                      ELSE tasks[i].subTasks]
                 ELSE tasks[i]]
  /\ linkingTaskId' = ""
  /\ UNCHANGED <<planning, rewards, spentXP, logs, timerTaskId, timerRunning,
                 timerSeconds, timerInterval, intervals, timerStart,
                 isAddingReward>>

\* resp.text of the answers generateContent resolves with: an analysis of the
\* requested schema, no text at all, and a text cut short
TextAnalysis ==
  <<"{","\"","s","c","o","r","e","\"",":","7","2",",","\"","s","u","m","m",
    "a","r","y","\"",":","\"","o","k","\"",",","\"","r","e","c","o","m","m",
    "e","n","d","a","t","i","o","n","s","\"",":","[","\"","r","e","s","t",
    "\"","]","}">>
TextCutShort ==
  <<"{","\"","s","c","o","r","e","\"",":","7">>
\* an answer whose one recommendation is an object, not a string
TextObjectItem ==
  <<"{","\"","r","e","c","o","m","m","e","n","d","a","t","i","o","n","s",
    "\"",":","[","{","}","]","}">>
ResponseTexts == {TextAnalysis, <<>>, TextCutShort, TextObjectItem}

\* resp.text || '{}' (part_000:582)
textOrEmptyObject(text) == IF text = <<>> THEN <<"{", "}">> ELSE text

\* a JavaScript value that && takes for false
isFalsy(v) ==
  \/ v.kind \in {"null", "false"}
  \/ v.kind = "number" /\ v.num = 0 /\ \A i \in 1..Len(v.str) : v.str[i] = "0"
  \/ v.kind = "string" /\ v.str = <<>>

\* the card {aiResult && (...)} renders: on a truthy slot, score and summary
\* are children, recommendations.map is called and each item is a child
\* (part_000:771-784)
cardRenders(v) ==
  LET score == Get(v, <<"s","c","o","r","e">>)
      summary == Get(v, <<"s","u","m","m","a","r","y">>)
      recommendations ==
        Get(v, <<"r","e","c","o","m","m","e","n","d","a","t","i","o","n","s">>)
  IN \/ isFalsy(v)
     \/ /\ isReactChild(score)
        /\ isReactChild(summary)
        /\ recommendations.kind = "array"
        /\ isReactChild(recommendations)

\* the views of the sidebar of v13 (part_000:260, 331-336)
Views13 == {"dashboard", "schedule", "tracker", "insights", "planning"}

\* the page renders: the card is drawn in the insights view only
\* (part_000:751)
viewRenders(view, result) == view = "insights" => cardRenders(result)

\* a button of the sidebar (part_000:349, 371): the view is set and the page
\* is drawn again; a render that throws unmounts the page
setActiveView13(view) ==
  /\ launch = "mounted"
  /\ activeView' = view
  /\ launch' = IF viewRenders(view, aiResult) THEN launch ELSE "crashed"
  /\ UNCHANGED <<aiResult, aiLoading, aiCall, stored>>
  /\ UNCHANGED appVars

\* the click on "Sync Neural Core", up to the await (part_000:561-566); the
\* button is disabled while aiLoading (part_000:762-764).  The client is
\* built before the try: when the constructor throws, the handler ends
\* there; whether it throws is for the build to decide, which sets
\* process.env.API_KEY (part_000:563)
syncAI(clientThrows) ==
  /\ launch = "mounted"
  /\ activeView = "insights"
  /\ ~aiLoading
  /\ aiLoading' = TRUE
  /\ aiCall' = IF clientThrows THEN "threw" ELSE "pending"
  /\ UNCHANGED <<aiResult, stored, launch, activeView>>
  /\ UNCHANGED appVars

\* variant of syncAIResolved that empties the slot when the text does not parse
syncAIResolvedClears(text) ==
  /\ aiCall = "pending"
  /\ LET parsed == JSONparse(textOrEmptyObject(text))
     IN /\ aiResult' = IF parsed.throws THEN JsonNull ELSE parsed.value
        /\ aiCall' = IF parsed.throws THEN "caught" ELSE "returned"
        /\ launch' = IF viewRenders(activeView, aiResult') THEN launch ELSE "crashed"
  /\ aiLoading' = FALSE
  /\ UNCHANGED <<stored, activeView>>
  /\ UNCHANGED appVars

\* the promise resolves with resp.text = text: the parsed value goes to the
\* slot, a SyntaxError goes to the catch, the flag is lowered, and the commit
\* draws the view the page shows (part_000:582-584, 751-784)
syncAIResolved(text) ==
  /\ aiCall = "pending"
  /\ LET parsed == JSONparse(textOrEmptyObject(text))
     IN /\ aiResult' = IF parsed.throws THEN aiResult ELSE parsed.value
        /\ aiCall' = IF parsed.throws THEN "caught" ELSE "returned"
        /\ launch' = IF viewRenders(activeView, aiResult') THEN launch ELSE "crashed"
  /\ aiLoading' = FALSE
  /\ UNCHANGED <<stored, activeView>>
  /\ UNCHANGED appVars

\* the promise rejects: the catch logs, the flag is lowered (part_000:583-584)
syncAIRejected ==
  /\ aiCall = "pending"
  /\ aiLoading' = FALSE
  /\ aiCall' = "caught"
  /\ UNCHANGED <<aiResult, stored, launch, activeView>>
  /\ UNCHANGED appVars

\* the request settles, one way or the other
syncAISettles == (\E text \in ResponseTexts : syncAIResolved(text)) \/ syncAIRejected

\* the block whose status button the user presses in this version, and the
\* sub-task button, as a pair <<task, sub-task>>
InsightTaskInputs == {"t2"}
InsightToggleInputs == { <<"t8", "nr1">> }

\* first launch of v13 (part_000:386-433, 558-559)
InsightInit ==
  /\ tasks = DefaultProtocol13
  /\ planning = DefaultPlanning13
  /\ rewards = <<>>
  /\ spentXP = 0
  /\ logs = <<>>
  /\ timerTaskId = ""
  /\ timerRunning = FALSE
  /\ timerSeconds = 0
  /\ timerInterval = FALSE
  /\ intervals = 0
  /\ timerStart = 0
  /\ aiResult = JsonNull
  /\ aiLoading = FALSE
  /\ aiCall = "none"
  /\ stored = NothingStored
  /\ launch = "mounted"
  /\ activeView = "schedule"
  /\ linkingTaskId = ""
  /\ isAddingReward = FALSE

\* the size of what the run has changed in the starter data of v13: goals
\* created or deleted, links, and the sessions logged or running (at least
\* one once a session was started)
Extras13 ==
  Cardinality(GoalIds \ {"p1", "p2"})
  + Cardinality({"p1", "p2"} \ GoalIds)
  + Cardinality({i \in 1..Len(tasks) : tasks[i].linkedPlanningTaskId # ""})
  + Max(Len(logs) + (IF timerRunning THEN 1 ELSE 0),
        IF timerStart # 0 THEN 1 ELSE 0)

\* a handler of the store runs while the page is up, within the bound, and
\* leaves the insights state alone
WhileMounted(handler) ==
  /\ launch = "mounted"
  /\ handler
  /\ Extras13' < MaxExtras
  /\ UNCHANGED otherVars

\* a handler whose button is drawn in one view only (part_000:602, 645, 673)
OnView(view, handler) == activeView = view /\ WhileMounted(handler)

\* the handlers of the store, the sidebar and the steps of the request, in
\* any order; the modal is drawn outside the views (part_000:794)
InsightNext ==
  \/ \E id \in InsightTaskInputs : OnView("schedule", cycleStatus(id))
  \/ \E in \in InsightToggleInputs : OnView("schedule", toggleSub(in[1], in[2]))
  \/ \E title \in GoalTitleInputs : OnView("planning", createGoal(title))
  \/ \E id \in GoalIds : OnView("planning", deleteGoal(id))
  \/ \E tid \in InsightTaskInputs : OnView("schedule", mountMission(tid))
  \/ \E gid \in GoalIds : WhileMounted(handleLinkGoal13(linkingTaskId, gid))
  \/ WhileMounted(abortAssign)
  \/ \E v \in TimerTaskInputs \cup {""} : OnView("tracker", selectTimerTask(v))
  \/ OnView("tracker", startTimer)
  \/ WhileMounted(tick)
  \/ OnView("tracker", stopTimer)
  \/ \E view \in Views13 : setActiveView13(view)
  \/ \E clientThrows \in BOOLEAN : syncAI(clientThrows)
  \/ \E text \in ResponseTexts : syncAIResolved(text)
  \/ syncAIRejected

\* the request the page awaits settles in the end
InsightSpec == InsightInit /\ [][InsightNext]_vars /\ WF_vars(syncAISettles)

---------------------------------------------------------------------------
(* The launch of v18 on what localStorage holds: the five useState         *)
(* initialisers and the first render (sw.js:194-268).                      *)

\* the ids and enum names the stored texts of the model spell, each with the
\* characters of its text
Spelling ==
  [ t1 |-> <<"t","1">>, t2 |-> <<"t","2">>, t3 |-> <<"t","3">>,
    t4 |-> <<"t","4">>, t5 |-> <<"t","5">>, t6 |-> <<"t","6">>,
    t7 |-> <<"t","7">>, t8 |-> <<"t","8">>, t9 |-> <<"t","9">>,
    mr1 |-> <<"m","r","1">>, mr2 |-> <<"m","r","2">>,
    mr3 |-> <<"m","r","3">>, mr4 |-> <<"m","r","4">>,
    mr5 |-> <<"m","r","5">>, tr1 |-> <<"t","r","1">>,
    tr2 |-> <<"t","r","2">>, tr3 |-> <<"t","r","3">>,
    tr4 |-> <<"t","r","4">>, tr5 |-> <<"t","r","5">>,
    ed1 |-> <<"e","d","1">>, ed2 |-> <<"e","d","2">>,
    ed3 |-> <<"e","d","3">>, nr1 |-> <<"n","r","1">>,
    nr2 |-> <<"n","r","2">>, nr3 |-> <<"n","r","3">>, l1 |-> <<"l","1">>,
    l2 |-> <<"l","2">>, r9 |-> <<"r","9">>, HIGH |-> <<"H","I","G","H">>,
    MEDIUM |-> <<"M","E","D","I","U","M">>, LOW |-> <<"L","O","W">>,
    todo |-> <<"t","o","d","o">>,
    partial |-> <<"p","a","r","t","i","a","l">>,
    done |-> <<"d","o","n","e">> ]
isSpelled(v) ==
  v.kind = "string" /\ \E n \in DOMAIN Spelling : Spelling[n] = v.str
Intern(v) == CHOOSE n \in DOMAIN Spelling : Spelling[n] = v.str

\* the property names of the stored records (sw.js:15-58)
Key ==
  [ id |-> <<"i","d">>, title |-> <<"t","i","t","l","e">>,
    priority |-> <<"p","r","i","o","r","i","t","y">>,
    status |-> <<"s","t","a","t","u","s">>,
    scheduledBlock |-> <<"s","c","h","e","d","u","l","e","d","B","l","o","c","k">>,
    startHour |-> <<"s","t","a","r","t","H","o","u","r">>,
    startMinute |-> <<"s","t","a","r","t","M","i","n","u","t","e">>,
    durationHours |-> <<"d","u","r","a","t","i","o","n","H","o","u","r","s">>,
    xpStakes |-> <<"x","p","S","t","a","k","e","s">>,
    subTasks |-> <<"s","u","b","T","a","s","k","s">>,
    completed |-> <<"c","o","m","p","l","e","t","e","d">>,
    xpValue |-> <<"x","p","V","a","l","u","e">>,
    linkedPlanningTaskId |-> <<"l","i","n","k","e","d","P","l","a","n","n","i","n","g","T","a","s","k","I","d">>,
    cost |-> <<"c","o","s","t">>, count |-> <<"c","o","u","n","t">>,
    taskId |-> <<"t","a","s","k","I","d">>,
    taskTitle |-> <<"t","a","s","k","T","i","t","l","e">>,
    startTime |-> <<"s","t","a","r","t","T","i","m","e">>,
    endTime |-> <<"e","n","d","T","i","m","e">>,
    duration |-> <<"d","u","r","a","t","i","o","n">> ]

TextEmptyArray == <<"[", "]">>
\* a text that was cut while it was written
TextCutArray == <<"[", "{">>
\* one plain block, done, with the hours of its block
TextTasks ==
  <<"[","{","\"","i","d","\"",":","\"","t","9","\"",",","\"","t","i","t","l",
    "e","\"",":","\"","F","o","c","u","s","\"",",","\"","p","r","i","o","r",
    "i","t","y","\"",":","\"","H","I","G","H","\"",",","\"","s","t","a","t",
    "u","s","\"",":","\"","d","o","n","e","\"",",","\"","s","c","h","e","d",
    "u","l","e","d","B","l","o","c","k","\"",":","{","\"","s","t","a","r",
    "t","H","o","u","r","\"",":","9",",","\"","s","t","a","r","t","M","i",
    "n","u","t","e","\"",":","0",",","\"","d","u","r","a","t","i","o","n",
    "H","o","u","r","s","\"",":","1","}","}","]">>
\* the same block in a record that has no scheduledBlock
TextTasksNoBlock ==
  <<"[","{","\"","i","d","\"",":","\"","t","9","\"",",","\"","t","i","t","l",
    "e","\"",":","\"","F","o","c","u","s","\"",",","\"","p","r","i","o","r",
    "i","t","y","\"",":","\"","H","I","G","H","\"",",","\"","s","t","a","t",
    "u","s","\"",":","\"","d","o","n","e","\"","}","]">>
\* one registered reward, redeemed once
TextRewards ==
  <<"[","{","\"","i","d","\"",":","\"","r","9","\"",",","\"","c","o","s",
    "t","\"",":","4","0",",","\"","c","o","u","n","t","\"",":","1","}","]">>

\* the records a browser may hold under the five keys; the texts under
\* chronos_v18_spent are those parseInt turns into a number
TaskItems ==
  {NoItem, Item(<<>>), Item(TextTasks), Item(TextTasksNoBlock), Item(TextCutArray)}
PlanItems == {NoItem, Item(TextEmptyArray), Item(TextCutArray)}
RewardItems == {NoItem, Item(TextRewards), Item(TextCutArray)}
SpentItems == {NoItem, Item(<<>>), Item(<<"4","0">>), Item(<<"4","0","x","p">>)}
LogItems == {NoItem, Item(TextEmptyArray), Item(TextCutArray)}

\* saved is truthy: there is an item and it is not the empty string
isTruthy(item) == item.found /\ item.text # <<>>

\* JSON.parse(saved) of an initialiser that tests saved first (sw.js:196, 201, 205)
parseIfSaved(item) ==
  IF isTruthy(item) THEN JSONparse(item.text) ELSE [throws |-> FALSE, value |-> JsonNull]

\* JSON.parse(localStorage.getItem(key) || '[]') (sw.js:214)
parseOrEmptyArray(item) ==
  JSONparse(IF isTruthy(item) THEN item.text ELSE TextEmptyArray)

\* parseInt(localStorage.getItem(key) || '0') (sw.js:212)
parseIntOrZero(item) == parseInt(IF isTruthy(item) THEN item.text ELSE <<"0">>)

\* a number without a fraction
isInteger(v) == v.kind = "number" /\ v.str = <<>>

\* the model's records of the parsed values
taskOfJson(v) ==
  LET subTaskOfJson(s) ==
        [SubTask(Intern(Get(s, Key.id)), Get(s, Key.xpValue).num)
         EXCEPT !.completed = (Get(s, Key.completed).kind = "true")]
      durationHours == Get(Get(v, Key.scheduledBlock), Key.durationHours)
      scheduledBlock ==
        Block(Get(Get(v, Key.scheduledBlock), Key.startHour).num,
              Get(Get(v, Key.scheduledBlock), Key.startMinute).num,
              durationHours.num * 10
              + (IF durationHours.str = <<>> THEN 0
                 ELSE digitValue(durationHours.str[1])))
      subTasks == Get(v, Key.subTasks)
      linked == Get(v, Key.linkedPlanningTaskId)
  IN [Task(Intern(Get(v, Key.id)), Get(v, Key.title).str,
           Intern(Get(v, Key.priority)), Get(v, Key.xpStakes).num,
           subTasks.kind = "array",
           IF subTasks.kind = "array"
           THEN [i \in 1..Len(subTasks.items) |-> subTaskOfJson(subTasks.items[i])]
           ELSE <<>>,
           scheduledBlock)
      EXCEPT !.status = Intern(Get(v, Key.status)),
             !.linkedPlanningTaskId =
               IF isNullish(linked) THEN "" ELSE Intern(linked)]
rewardOfJson(v) ==
  [id |-> Intern(Get(v, Key.id)), cost |-> Get(v, Key.cost).num,
   count |-> Get(v, Key.count).num]
logOfJson(v) ==
  [id |-> Intern(Get(v, Key.id)), taskId |-> Intern(Get(v, Key.taskId)),
   taskTitle |-> Get(v, Key.taskTitle).str,
   startTime |-> Get(v, Key.startTime).num,
   endTime |-> Get(v, Key.endTime).num,
   duration |-> Get(v, Key.duration).num]

\* what the first render can walk: an array (sw.js:238, 264), here of the
\* records the model can hold
isTaskList(v) ==
  LET isSubTaskList(a) ==
        /\ a.kind = "array"
        /\ \A i \in 1..Len(a.items) :
             /\ a.items[i].kind = "object"
             /\ isSpelled(Get(a.items[i], Key.id))
             /\ Get(a.items[i], Key.completed).kind \in {"true", "false"}
             /\ isInteger(Get(a.items[i], Key.xpValue))
      isBlock(b) ==
        /\ b.kind = "object"
        /\ isInteger(Get(b, Key.startHour))
        /\ isInteger(Get(b, Key.startMinute))
        /\ Get(b, Key.durationHours).kind = "number"
        /\ Len(Get(b, Key.durationHours).str) <= 1
  IN /\ v.kind = "array"
     /\ \A i \in 1..Len(v.items) :
          LET t == v.items[i]
          IN /\ t.kind = "object"
             /\ isSpelled(Get(t, Key.id))
             /\ Get(t, Key.title).kind = "string"
             /\ isSpelled(Get(t, Key.priority))
             /\ isSpelled(Get(t, Key.status))
             /\ isBlock(Get(t, Key.scheduledBlock))
             /\ HasKey(t, Key.xpStakes) => isInteger(Get(t, Key.xpStakes))
             /\ HasKey(t, Key.subTasks) => isSubTaskList(Get(t, Key.subTasks))
             /\ HasKey(t, Key.linkedPlanningTaskId)
                  => isSpelled(Get(t, Key.linkedPlanningTaskId))
isRewardList(v) ==
  /\ v.kind = "array"
  /\ \A i \in 1..Len(v.items) :
       /\ v.items[i].kind = "object"
       /\ isSpelled(Get(v.items[i], Key.id))
       /\ isInteger(Get(v.items[i], Key.cost))
       /\ isInteger(Get(v.items[i], Key.count))
isLogList(v) ==
  /\ v.kind = "array"
  /\ \A i \in 1..Len(v.items) :
       /\ v.items[i].kind = "object"
       /\ isSpelled(Get(v.items[i], Key.id))
       /\ isSpelled(Get(v.items[i], Key.taskId))
       /\ Get(v.items[i], Key.taskTitle).kind = "string"
       /\ isInteger(Get(v.items[i], Key.startTime))
       /\ isInteger(Get(v.items[i], Key.endTime))
       /\ isInteger(Get(v.items[i], Key.duration))

\* an initialiser throws (sw.js:196, 201, 205, 214)
launchThrows(st) ==
  \/ parseIfSaved(st.tasks).throws
  \/ parseIfSaved(st.plan).throws
  \/ parseIfSaved(st.rewards).throws
  \/ parseOrEmptyArray(st.logs).throws

\* the stored values are ones the model can hold
launchReadable(st) ==
  /\ isTruthy(st.tasks) => isTaskList(parseIfSaved(st.tasks).value)
  /\ isTruthy(st.plan) => parseIfSaved(st.plan).value = JsonArray(<<>>)
  /\ isTruthy(st.rewards) => isRewardList(parseIfSaved(st.rewards).value)
  /\ isLogList(parseOrEmptyArray(st.logs).value)
  /\ ~parseIntOrZero(st.spent).isNaN

\* formatHour(h, m) returns: displayH.toString() and m.toString() are
\* called on what the block holds (sw.js:115-119)
formatHourReturns(h, m) == ~isNullish(h) /\ ~isNullish(m)

\* one card of the schedule view renders: the hours are read off
\* task.scheduledBlock, and the hours and the title are children (sw.js:366-388)
taskCardRenders(t) ==
  LET scheduledBlock == Get(t, Key.scheduledBlock)
      startHour == Get(scheduledBlock, Key.startHour)
      startMinute == Get(scheduledBlock, Key.startMinute)
      durationHours == Get(scheduledBlock, Key.durationHours)
  IN /\ ~isNullish(scheduledBlock)
     /\ formatHourReturns(startHour, startMinute)
     /\ isReactChild(durationHours)
     /\ isReactChild(Get(t, Key.title))

\* the initialisers return and the JSX of the first render, the schedule
\* view over the loaded tasks, throws (sw.js:193, 364-366); the starter
\* blocks all have their scheduledBlock (sw.js:74-106)
renderThrows(st) ==
  /\ ~launchThrows(st)
  /\ isTruthy(st.tasks)
  /\ LET v == parseIfSaved(st.tasks).value
     IN \/ v.kind # "array"
        \/ \E i \in 1..Len(v.items) : ~taskCardRenders(v.items[i])

\* the values of the five initialisers (sw.js:194-214)
loadedTasks(st) ==
  IF isTruthy(st.tasks)
  THEN LET v == parseIfSaved(st.tasks).value
       IN [i \in 1..Len(v.items) |-> taskOfJson(v.items[i])]
  ELSE getDefaultProtocol
loadedPlanning(st) == <<>>
loadedRewards(st) ==
  IF isTruthy(st.rewards)
  THEN LET v == parseIfSaved(st.rewards).value
       IN [i \in 1..Len(v.items) |-> rewardOfJson(v.items[i])]
  ELSE DefaultRewards
loadedSpentXP(st) == parseIntOrZero(st.spent).value
loadedLogs(st) ==
  LET v == parseOrEmptyArray(st.logs).value
  IN [i \in 1..Len(v.items) |-> logOfJson(v.items[i])]

\* the page is opened on some stored records; nothing is rendered yet
LoadInit ==
  /\ stored \in [tasks : TaskItems, plan : PlanItems, rewards : RewardItems,
                 spent : SpentItems, logs : LogItems]
  /\ launch = "opening"
  /\ tasks = <<>>
  /\ planning = <<>>
  /\ rewards = <<>>
  /\ spentXP = 0
  /\ logs = <<>>
  /\ timerTaskId = ""
  /\ timerRunning = FALSE
  /\ timerSeconds = 0
  /\ timerInterval = FALSE
  /\ intervals = 0
  /\ timerStart = 0
  /\ aiResult = JsonNull
  /\ aiLoading = FALSE
  /\ aiCall = "none"
  /\ activeView = "schedule"
  /\ linkingTaskId = ""
  /\ isAddingReward = FALSE

\* the first render: the initialisers give the state and the schedule view
\* is drawn (sw.js:193-221, 341-416)
mountApp ==
  /\ launch = "opening"
  /\ ~launchThrows(stored)
  /\ launchReadable(stored)
  /\ ~renderThrows(stored)
  /\ tasks' = loadedTasks(stored)
  /\ planning' = loadedPlanning(stored)
  /\ rewards' = loadedRewards(stored)
  /\ spentXP' = loadedSpentXP(stored)
  /\ logs' = loadedLogs(stored)
  /\ launch' = "mounted"
  /\ UNCHANGED <<timerTaskId, timerRunning, timerSeconds, timerInterval,
                 intervals, timerStart, aiResult, aiLoading, aiCall, stored, activeView,
                 linkingTaskId, isAddingReward>>

\* the first render throws, in an initialiser or in the JSX: nothing is
\* mounted and the persistence effect never runs
failToMount ==
  /\ launch = "opening"
  /\ launchThrows(stored) \/ renderThrows(stored)
  /\ launch' = "crashed"
  /\ UNCHANGED <<appVars, aiVars, stored, activeView>>

LoadNext == mountApp \/ failToMount

LoadSpec == LoadInit /\ [][LoadNext]_vars

---------------------------------------------------------------------------
(* The engine on saved data: the page of v18 opened on the tasks and logs   *)
(* an earlier session left in localStorage, with every control it offers.  *)

\* JSON.stringify, on the numbers, strings and records the persistence
\* effect writes (sw.js:227-233); no string of the model needs an escape
RECURSIVE numberText(_)
numberText(n) ==
  IF n < 0 THEN <<"-">> \o numberText(0 - n)
  ELSE IF n < 10 THEN <<Digits[n + 1]>>
  ELSE numberText(n \div 10) \o <<Digits[(n % 10) + 1]>>
Quoted(s) == <<"\"">> \o s \o <<"\"">>
RECURSIVE Joined(_)
Joined(texts) ==
  IF texts = <<>> THEN <<>>
  ELSE IF Len(texts) = 1 THEN texts[1]
  ELSE texts[1] \o <<",">> \o Joined(Tail(texts))
Member(key, text) == Quoted(key) \o <<":">> \o text
\* an object or an array, between its brackets
Enclosed(open, texts, close) == <<open>> \o Joined(texts) \o <<close>>

\* the properties in the order the records are built with (sw.js:74-106,
\* 323-326); a property that is undefined is not written; durationHours is
\* held in tenths
stringifyTask(t) ==
  LET stringifySubTask(s) ==
        Enclosed("{", << Member(Key.id, Quoted(Spelling[s.id])),
                         Member(Key.completed,
                                IF s.completed THEN <<"t","r","u","e">>
                                ELSE <<"f","a","l","s","e">>),
                         Member(Key.xpValue, numberText(s.xpValue)) >>, "}")
      b == t.scheduledBlock
      durationHours ==
        numberText(b.durationHours \div 10)
        \o (IF b.durationHours % 10 = 0 THEN <<>>
            ELSE <<".", Digits[(b.durationHours % 10) + 1]>>)
      scheduledBlock ==
        Enclosed("{", << Member(Key.startHour, numberText(b.startHour)),
                         Member(Key.startMinute, numberText(b.startMinute)),
                         Member(Key.durationHours, durationHours) >>, "}")
  IN Enclosed("{",
       << Member(Key.id, Quoted(Spelling[t.id])),
          Member(Key.title, Quoted(t.title)),
          Member(Key.priority, Quoted(Spelling[t.priority])),
          Member(Key.status, Quoted(Spelling[t.status])),
          Member(Key.scheduledBlock, scheduledBlock) >>
       \o (IF t.xpStakes # 0
           THEN << Member(Key.xpStakes, numberText(t.xpStakes)) >> ELSE <<>>)
       \o (IF t.hasSubTasks
           THEN << Member(Key.subTasks,
                          Enclosed("[", [i \in 1..Len(t.subTasks) |->
                                           stringifySubTask(t.subTasks[i])],
                                   "]")) >>
           ELSE <<>>)
       \o (IF t.linkedPlanningTaskId # ""
           THEN << Member(Key.linkedPlanningTaskId,
                          Quoted(Spelling[t.linkedPlanningTaskId])) >>
           ELSE <<>>),
       "}")
stringifyLog(l) ==
  Enclosed("{", << Member(Key.id, Quoted(Spelling[l.id])),
                   Member(Key.taskId, Quoted(Spelling[l.taskId])),
                   Member(Key.taskTitle, Quoted(l.taskTitle)),
                   Member(Key.startTime, numberText(l.startTime)),
                   Member(Key.endTime, numberText(l.endTime)),
                   Member(Key.duration, numberText(l.duration)) >>, "}")

\* what localStorage may hold at launch: task lists saved by an earlier
\* session, blocks of the starter protocol, alone or together, and a plain
\* HIGH block, some of them partial by one press of their status button or
\* done by two
SavedTaskLists ==
  LET p == getDefaultProtocol
      partial(t) == cycleTask(t)
      done(t) == cycleTask(cycleTask(t))
  IN { <<>>,
       << p[6] >>,
       << p[8] >>,
       << done(p[1]) >>,
       << done(PlainHighTask), done(p[5]), p[2], p[7] >>,
       << done(p[2]), done(p[4]), done(p[5]), p[7], partial(PlainHighTask) >> }

\* a log an earlier session saved: a session of the given length in seconds,
\* started the given number of seconds before this page was opened; the
\* instants are in ms, counted from the opening of this page
SavedLogLists ==
  LET SavedLog(id, secondsAgo, seconds) ==
        [id |-> id, taskId |-> "t2", taskTitle |-> TitleOneThing,
         startTime |-> 0 - secondsAgo * 1000,
         endTime |-> 0 - secondsAgo * 1000 + seconds * 1000,
         duration |-> seconds]
  IN { <<>>,
       << SavedLog("l1", 7200, 1799) >>,
       << SavedLog("l1", 7200, 2700) >>,
       << SavedLog("l2", 3600, 900), SavedLog("l1", 7200, 900) >> }

\* the page once it has opened on what the earlier session left, the texts
\* its persistence effect wrote under chronos_v18_tasks and chronos_v18_logs:
\* the initialisers have read them and the first render is done
\* (sw.js:193-225, 341-416)
EngineInit ==
  /\ \E ts \in SavedTaskLists, ls \in SavedLogLists :
       stored =
         [NothingStored EXCEPT
            !.tasks = Item(Enclosed("[", [i \in 1..Len(ts) |-> stringifyTask(ts[i])],
                                    "]")),
            !.logs = Item(Enclosed("[", [i \in 1..Len(ls) |-> stringifyLog(ls[i])],
                                   "]"))]
  /\ ~launchThrows(stored)
  /\ launchReadable(stored)
  /\ ~renderThrows(stored)
  /\ tasks = loadedTasks(stored)
  /\ planning = loadedPlanning(stored)
  /\ rewards = loadedRewards(stored)
  /\ spentXP = loadedSpentXP(stored)
  /\ logs = loadedLogs(stored)
  /\ timerTaskId = ""
  /\ timerRunning = FALSE
  /\ timerSeconds = 0
  /\ timerInterval = FALSE
  /\ intervals = 0
  /\ timerStart = 0
  /\ aiResult = JsonNull
  /\ aiLoading = FALSE
  /\ aiCall = "none"
  /\ launch = "mounted"
  /\ activeView = "schedule"
  /\ linkingTaskId = ""
  /\ isAddingReward = FALSE

\* the controls of the page, as in Next, on the blocks the saved lists hold:
\* status and sub-task buttons on t6 and t7, "Import Mission" on t1 and t8,
\* the tracker's select on t7 and t8
EngineNext ==
  \/ \E id \in {"t6", "t7"} \cap TaskIds :
       InView("schedule", cycleStatus(id))
  \/ \E tid \in {"t6", "t7"} \cap TaskIds :
       \E i \in 1..Len(TaskOf(tid).subTasks) :
         InView("schedule", toggleSub(tid, TaskOf(tid).subTasks[i].id))
  \/ \E tid \in {"t1", "t8"} : InView("schedule", importMission(tid))
  \/ \E gid \in GoalIds \cup {UnknownGoalId} :
       OnPage(handleLinkGoal(linkingTaskId, gid))
  \/ OnPage(abortAssign)
  \/ \E title \in GoalTitleInputs : InView("planning", createGoal(title))
  \/ \E id \in GoalIds : InView("planning", deleteGoal(id))
  \/ \E id \in RewardIds \cup {UnknownRewardId} : InView("shop", buyReward(id))
  \/ InView("shop", constructReward)
  \/ \E in \in RewardInputs : OnPage(addReward(in[1], in[2]))
  \/ OnPage(cancelReward)
  \/ \E v \in {"t7", "t8", ""} : InView("tracker", selectTimerTask(v))
  \/ InView("tracker", startTimer)
  \/ OnPage(tick)
  \/ InView("tracker", stopTimer)
  \/ \E view \in Views : setActiveView(view)

EngineSpec == EngineInit /\ [][EngineNext]_vars

---------------------------------------------------------------------------
(* Properties.                                                             *)

\* C1: in every state reachable from the starter data by status cycles,
\* sub-task toggles, goal links, timer stops and redemptions, the engine's
\* totalXP is at least 0.
C1_TotalXPNonNegative == totalXP(tasks, logs) >= 0

\* some blocks are done, the rest still lose more than was won: the sum the
\* engine rounds is negative and totalXP is 0
C1_Witness ==
  /\ \E i \in 1..Len(tasks) : tasks[i].status = "done"
  /\ rawXP5(tasks) + 5 * focusBonus(logs) < 0
  /\ totalXP(tasks, logs) = 0

\* C2: buyReward on an existing reward of cost C, called when
\* totalXP - spentXP >= C, raises spentXP by exactly C and that reward's
\* count by exactly 1.  (A step that leaves spentXP and rewards as they were
\* and is a buyReward step leaves every variable as it was.)
C2_BuyRewardCharges ==
  [][<<spentXP, rewards>>' # <<spentXP, rewards>> =>
       LET balance == totalXP(tasks, logs) - spentXP
       IN \A id \in RewardIds :
            (/\ balance >= RewardOf(id).cost
             /\ buyReward(id))
            => /\ spentXP' = spentXP + RewardOf(id).cost
               /\ \A i \in 1..Len(rewards) :
                    rewards[i].id = id =>
                      /\ rewards'[i].id = id
                      /\ rewards'[i].count = rewards[i].count + 1]_vars

\* a reward of positive cost has been claimed once and spentXP is its cost
C2_Witness ==
  \E i \in 1..Len(rewards) :
    /\ rewards[i].cost > 0
    /\ rewards[i].count = 1
    /\ spentXP = rewards[i].cost

\* C3: buyReward called with balance < cost, or with an id no reward
\* carries, changes nothing: spentXP, every reward's count, tasks, logs and
\* planning stay as they were.  Stated from the other side: a step that
\* changes one of them is not such a call.
C3_RefusedBuyIsNoOp ==
  [][<<spentXP, rewards, tasks, logs, planning>>'
       # <<spentXP, rewards, tasks, logs, planning>> =>
       \A id \in RewardIds \cup {UnknownRewardId} :
         ~(/\ buyReward(id)
           /\ \/ id \notin RewardIds
              \/ totalXP(tasks, logs) - spentXP < RewardOf(id).cost)]_vars

\* XP was earned and spent, and what is left no longer pays for the reward
\* that was claimed: the next claim of it is refused
C3_Witness ==
  /\ spentXP > 0
  /\ \E id \in RewardIds :
       /\ RewardOf(id).count > 0
       /\ 0 < currentBalance
       /\ currentBalance < RewardOf(id).cost

\* C4: a redemption is one transition: between any two consecutive states,
\* as committed and as persisted, spentXP moves by exactly the cost of the
\* claims the reward counts record, so neither half is ever seen alone.
C4_RedemptionAtomic ==
  [][LET before == Persisted
         after == Persisted'
     IN /\ Len(after.rewards) >= Len(before.rewards)
        /\ after.spent - before.spent =
             Sum([i \in 1..Len(before.rewards) |->
                    (after.rewards[i].count - before.rewards[i].count)
                    * before.rewards[i].cost])]_vars

\* the persisted records after the first claim of r1
C4_Witness ==
  /\ Persisted.spent = 100
  /\ Persisted.rewards[1].id = "r1"
  /\ Persisted.rewards[1].count = 1

\* C5: spentXP never decreases: after any step (registering a reward with
\* any cost the form accepts, a redemption, a task or timer operation) it is
\* at least what it was before.
C5_SpentXPMonotone == [][spentXP' >= spentXP]_vars

\* C6: in every reachable state a task that owns sub-tasks is done iff all
\* of them are completed, partial iff some but not all are, and todo iff
\* none is, whatever the interleaving of cycleStatus, toggles and links.
C6_StatusDerived ==
  \A i \in 1..Len(tasks) :
    (tasks[i].hasSubTasks /\ Len(tasks[i].subTasks) > 0) =>
      LET cc == completedCount(tasks[i])
          n == Len(tasks[i].subTasks)
      IN /\ tasks[i].status = "done" <=> cc = n
         /\ tasks[i].status = "partial" <=> (0 < cc /\ cc < n)
         /\ tasks[i].status = "todo" <=> cc = 0

\* C7: a sub-task toggle flips that sub-task's flag alone and stores the
\* status the new flags give: done when all are completed, partial when
\* some but not all are, todo when none is.  (A toggle always writes its
\* task, so only the task a step wrote is looked at.)
C7_ToggleRecomputesStatus ==
  [][\A i \in 1..Len(tasks) :
       tasks'[i] # tasks[i] =>
         \A k \in 1..Len(tasks[i].subTasks) :
           toggleSub(tasks[i].id, tasks[i].subTasks[k].id)
           => LET old == tasks[i].subTasks
                  new == tasks'[i].subTasks
                  cc == Cardinality({j \in 1..Len(new) : new[j].completed})
              IN /\ Len(new) = Len(old)
                 /\ \A j \in 1..Len(old) :
                      new[j].completed = (IF j = k THEN ~old[j].completed
                                          ELSE old[j].completed)
                 /\ tasks'[i].status =
                      (IF cc = Len(new) THEN "done"
                       ELSE IF cc > 0 THEN "partial" ELSE "todo")]_vars

\* one sub-task was toggled back after the others were completed: the task
\* is partial again
C7_Witness ==
  \E i \in 1..Len(tasks) :
    /\ tasks[i].hasSubTasks
    /\ completedCount(tasks[i]) = Len(tasks[i].subTasks) - 1
    /\ completedCount(tasks[i]) > 0
    /\ tasks[i].status = "partial"

\* C8: cycleStatus moves the task one step along todo -> partial -> done ->
\* todo, for plain, stake and sub-tasked tasks alike; no status is terminal
\* and three cycles in a row give the starting status back.  (A cycleStatus
\* step writes its task, or completes a goal, or leaves every variable as
\* it was.)
C8_CycleAdvancesOneStep ==
  /\ [][\A i \in 1..Len(tasks) :
          (/\ tasks'[i] # tasks[i] \/ planning' # planning
           /\ cycleStatus(tasks[i].id))
          => /\ tasks[i].status = "todo" => tasks'[i].status = "partial"
             /\ tasks[i].status = "partial" => tasks'[i].status = "done"
             /\ tasks[i].status = "done" => tasks'[i].status = "todo"]_vars
  /\ [](\A i \in 1..Len(tasks) :
          /\ cycleTask(tasks[i]).status # tasks[i].status
          /\ cycleTask(cycleTask(tasks[i])).status # tasks[i].status
          /\ cycleTask(cycleTask(cycleTask(tasks[i]))).status = tasks[i].status)

\* a stake task one cycle from todo, another two cycles from todo, and a
\* sub-tasked task that a cycle took to partial with nothing completed
C8_Witness ==
  /\ TaskOf("t2").status = "partial"
  /\ TaskOf("t4").status = "done"
  /\ TaskOf("t8").status = "partial"
  /\ completedCount(TaskOf("t8")) = 0

\* C9: cycleStatus that takes a sub-tasked task to done completes every
\* sub-task; cycleStatus on a done sub-tasked task takes it to todo and
\* un-completes every sub-task.
C9_CycleSetsSubTasks ==
  [][<<tasks, planning>>' # <<tasks, planning>> =>
       \A i \in 1..Len(tasks) :
         (/\ tasks[i].hasSubTasks
          /\ cycleStatus(tasks[i].id))
         => /\ tasks'[i].status = "done" =>
                 \A k \in 1..Len(tasks'[i].subTasks) :
                   tasks'[i].subTasks[k].completed
            /\ tasks[i].status = "done" =>
                 /\ tasks'[i].status = "todo"
                 /\ \A k \in 1..Len(tasks'[i].subTasks) :
                      ~tasks'[i].subTasks[k].completed
            /\ Len(tasks'[i].subTasks) = Len(tasks[i].subTasks)]_vars

\* a linked sub-tasked task was cycled to done: all its sub-tasks are
\* completed, none of them by a toggle, which would have left the goal open
C9_Witness ==
  \E i \in 1..Len(tasks) :
    /\ tasks[i].hasSubTasks
    /\ Len(tasks[i].subTasks) > 0
    /\ tasks[i].status = "done"
    /\ \A k \in 1..Len(tasks[i].subTasks) : tasks[i].subTasks[k].completed
    /\ tasks[i].linkedPlanningTaskId \in GoalIds
    /\ GoalOf(tasks[i].linkedPlanningTaskId).completed

\* C10: whenever a task with a linkedPlanningTaskId becomes done, by
\* cycleStatus or by the toggle of its last open sub-task, the linked goal,
\* if planning still holds it, is completed in the resulting state.
C10_DoneCompletesGoal ==
  [][\A i \in 1..Len(tasks) :
       (/\ tasks[i].linkedPlanningTaskId # ""
        /\ tasks[i].status # "done"
        /\ tasks'[i].status = "done")
       => \A j \in 1..Len(planning') :
            planning'[j].id = tasks[i].linkedPlanningTaskId
            => planning'[j].completed]_vars

\* C11: stopTimer adds exactly one log when the elapsed counter is above 0
\* and the selected task exists, and none otherwise; the new log names the
\* selected task, carries the recorded start and has the counter's value at
\* the stop as its duration.
C11_StopTimerLogs ==
  [][stopTimer =>
       IF timerTaskId \in TaskIds /\ timerSeconds > 0
       THEN /\ Len(logs') = Len(logs) + 1
            /\ Tail(logs') = logs
            /\ Head(logs').taskId = timerTaskId
            /\ Head(logs').startTime = timerStart
            /\ Head(logs').duration = timerSeconds
       ELSE logs' = logs]_vars

\* two sessions on t8 were stopped and logged, the first after one tick
\* and the second, in front of it, after two; the clock read 650 at the
\* start of the second and 1813 at its stop, and was set back in the first
C11_Witness ==
  /\ Len(logs) = 2
  /\ logs[1].taskId = "t8"
  /\ logs[1].duration = 2
  /\ logs[1].startTime = 650
  /\ logs[1].endTime = 1813
  /\ logs[2].duration = 1
  /\ logs[2].startTime = 1813
  /\ logs[2].endTime = 650
  /\ ~timerRunning

\* C12: the timer leaves idle only through startTimer with a selected task:
\* with nothing selected no step starts it, schedules a tick or moves the
\* counter, and the only changes of the running flag are idle -> running by
\* startTimer and running -> idle by stopTimer.
C12_TimerTransitions ==
  [][/\ timerRunning' # timerRunning =>
          IF timerRunning THEN stopTimer
          ELSE startTimer /\ timerTaskId # ""
     /\ (timerTaskId = "" /\ ~timerRunning) =>
          UNCHANGED <<timerRunning, timerInterval, intervals, timerSeconds,
                      timerStart>>]_vars

\* two sessions were run and logged and the selection was cleared
\* afterwards: the timer is idle with nothing selected
C12_Witness ==
  /\ ~timerRunning
  /\ timerTaskId = ""
  /\ Len(logs) = 2
  /\ intervals = 0

\* C13: while the timer is idle no interval is scheduled and the elapsed
\* counter is 0, so no tick moves the counter between a stop and the next
\* start; and never more than one interval is scheduled.
C13_IdleHasNoTick ==
  /\ intervals <= 1
  /\ ~timerRunning => (intervals = 0 /\ ~timerInterval /\ timerSeconds = 0)

\* a session was stopped and logged, a second one was started, ticked and
\* was stopped and logged: the timer is idle, its block still selected
C13_Witness ==
  /\ ~timerRunning
  /\ timerTaskId # ""
  /\ Len(logs) = 2
  /\ logs[1].duration > 0
  /\ intervals = 0
  /\ timerSeconds = 0

\* C14: the logs only grow: no step removes a log or changes a field of an
\* existing one; renaming a task by handleLinkGoal leaves the taskTitle of
\* its logs as it was.
C14_LogsAppendOnly ==
  [][/\ Len(logs') >= Len(logs)
     /\ SubSeq(logs', Len(logs') - Len(logs) + 1, Len(logs')) = logs]_vars

\* t8 was logged as "Night Routine" and renamed by a link afterwards
C14_Witness ==
  \E i \in 1..Len(logs) :
    /\ logs[i].taskId = "t8"
    /\ logs[i].taskTitle = TitleNightRoutine
    /\ TaskOf("t8").title # TitleNightRoutine
    /\ TaskOf("t8").linkedPlanningTaskId # ""

\* C15: a task with xpStakes, with or without sub-tasks, contributes before
\* the priority multiplier exactly +xpStakes when done, -xpStakes when todo
\* and 0 when partial; what its sub-tasks say does not enter.
C15_StakeSymmetry ==
  \A i \in 1..Len(tasks) :
    tasks[i].xpStakes # 0 =>
      /\ tasks[i].status = "done" => taskBase(tasks[i]) = tasks[i].xpStakes
      /\ tasks[i].status = "todo" => taskBase(tasks[i]) = 0 - tasks[i].xpStakes
      /\ tasks[i].status = "partial" => taskBase(tasks[i]) = 0
      /\ taskBase(tasks[i]) =
           taskBase([tasks[i] EXCEPT !.hasSubTasks = FALSE, !.subTasks = <<>>])

\* Education (stake 50, three sub-tasks) with one sub-task completed and two
\* open: partial, and it adds 0
C15_Witness ==
  \E i \in 1..Len(tasks) :
    /\ tasks[i].xpStakes = 50
    /\ tasks[i].hasSubTasks
    /\ completedCount(tasks[i]) = 1
    /\ tasks[i].status = "partial"
    /\ taskBase(tasks[i]) = 0

\* C16: a sub-task task without stakes contributes completedCount x 20, +40
\* when all and -50 when none are completed, if it is of the Night Routine
\* class, and completedCount x 10, +25 when all and -25 when none, under any
\* other title; some-but-not-all gets neither bonus nor penalty.
C16_SubTaskContribution ==
  \A i \in 1..Len(tasks) :
    (tasks[i].xpStakes = 0 /\ tasks[i].hasSubTasks) =>
      LET cc == completedCount(tasks[i])
          n == Len(tasks[i].subTasks)
      IN taskBase(tasks[i]) =
           IF Includes(tasks[i].title, TitleNightRoutine)
           THEN cc * 20 + (IF cc = n THEN 40 ELSE 0) - (IF cc = 0 THEN 50 ELSE 0)
           ELSE cc * 10 + (IF cc = n THEN 25 ELSE 0) - (IF cc = 0 THEN 25 ELSE 0)

\* C17: the priority factor (x1.2 HIGH, x0.8 LOW, x1 MEDIUM) multiplies a
\* task's contribution exactly when the contribution is above 0 and the task
\* is done; losses and partial credit are never multiplied (a plain HIGH task
\* adds 60 when done and 20 when partial).  Amounts are in fifths of an XP.
C17_PriorityMultiplierScope ==
  \A i \in 1..Len(tasks) :
    LET t == tasks[i]
        b == taskBase(t)
        x == taskXP5(t)
    IN /\ (b > 0 /\ t.status = "done") =>
            x = (IF t.priority = "HIGH" THEN 6 * b
                 ELSE IF t.priority = "LOW" THEN 4 * b ELSE 5 * b)
       /\ (b <= 0 \/ t.status # "done") => x = 5 * b
       /\ (t.xpStakes = 0 /\ ~t.hasSubTasks /\ t.priority = "HIGH") =>
            /\ t.status = "done" => x = 5 * 60
            /\ t.status = "partial" => x = 5 * 20

\* a plain HIGH task is done and adds 60, a plain LOW task is done and adds
\* 40, a HIGH stake is lost at its face value and a LOW stake is partial
C17_Witness ==
  /\ Len(tasks) = 4
  /\ tasks[1].priority = "HIGH" /\ tasks[1].status = "done"
  /\ taskXP5(tasks[1]) = 300
  /\ tasks[2].priority = "LOW" /\ tasks[2].status = "done"
  /\ taskXP5(tasks[2]) = 200
  /\ tasks[3].priority = "HIGH" /\ tasks[3].status = "todo"
  /\ taskXP5(tasks[3]) = 0 - 500
  /\ tasks[4].status = "partial"

\* C18: focusBonus is 5 x floor(S / 1800), S being the durations of all logs
\* added up: 2700 gives 5, 1799 gives 0, two logs of 900 give 5.
C18_FocusBonus ==
  LET S == Sum([i \in 1..Len(logs) |-> logs[i].duration])
  IN /\ focusBonus(logs) = 5 * (S \div 1800)
     /\ S = 2700 => focusBonus(logs) = 5
     /\ S = 1799 => focusBonus(logs) = 0
     /\ (Len(logs) = 2 /\ logs[1].duration = 900 /\ logs[2].duration = 900)
          => focusBonus(logs) = 5

\* a session of one tick was stopped on top of a saved log of 1799 seconds:
\* the sum came to 1800 by the stop and the bonus went from 0 to 5
C18_Witness ==
  /\ Len(logs) = 2
  /\ logs[1].duration = 1
  /\ logs[2].duration = 1799
  /\ focusBonus(Tail(logs)) = 0
  /\ focusBonus(logs) = 5
  /\ ~timerRunning

\* C19: the adherence multiplier is 1.1 exactly when there are tasks and
\* 5 x (tasks done) >= 4 x (tasks), and 1.0 otherwise, the empty list
\* included: 3 of 4 done give 1.0, 4 of 5 done give 1.1.  In tenths.
C19_AdherenceThreshold ==
  LET n == Len(tasks)
      done == Cardinality({i \in 1..Len(tasks) : tasks[i].status = "done"})
  IN /\ adherenceTenths(tasks) = 11 <=> (n > 0 /\ 5 * done >= 4 * n)
     /\ adherenceTenths(tasks) \in {10, 11}
     /\ n = 0 => adherenceTenths(tasks) = 10
     /\ (n = 4 /\ done = 3) => adherenceTenths(tasks) = 10
     /\ (n = 5 /\ done = 4) => adherenceTenths(tasks) = 11

\* four of five tasks are done
C19_Witness ==
  /\ Len(tasks) = 5
  /\ Cardinality({i \in 1..Len(tasks) : tasks[i].status = "done"}) = 4
  /\ adherenceTenths(tasks) = 11

\* C20: totalXP is max(0, R), R being (rawXP + focusBonus) x the adherence
\* multiplier rounded to the nearest integer, halves away from zero; the
\* multiplier applies to the sum and the floor at 0 comes after the rounding.
\* The product is in fiftieths of an XP.
C20_FinalComputation ==
  LET q == (rawXP5(tasks) + 5 * focusBonus(logs)) * adherenceTenths(tasks)
      R == IF q >= 0 THEN (q + 25) \div 50 ELSE 0 - ((25 - q) \div 50)
  IN totalXP(tasks, logs) = (IF R > 0 THEN R ELSE 0)

\* Education, saved todo, was taken to done by two presses of its status
\* button (50), with 2700 seconds of focus (5) at x1.1: 60.5, a half, and
\* totalXP is 61
C20_Witness ==
  /\ Len(tasks) = 1
  /\ tasks[1].id = "t6"
  /\ tasks[1].status = "done"
  /\ adherenceTenths(tasks) = 11
  /\ focusBonus(logs) = 5
  /\ rawXP5(tasks) = 250
  /\ totalXP(tasks, logs) = 61

\* C23: each sub-task is worth its own xpValue: on a task without stakes,
\* completing one more sub-task, when some were completed before and some
\* stay open after, raises the task's contribution by that sub-task's
\* xpValue.
C23_SubTaskOwnValue ==
  \A i \in 1..Len(tasks) : \A k \in 1..Len(tasks[i].subTasks) :
    LET t == tasks[i]
        cc == completedCount(t)
    IN (/\ t.xpStakes = 0
        /\ t.hasSubTasks
        /\ ~t.subTasks[k].completed
        /\ cc >= 1
        /\ cc + 1 < Len(t.subTasks))
       => taskBase(toggleTask(t, t.subTasks[k].id))
            = taskBase(t) + t.subTasks[k].xpValue

\* C25: a goal's completion is one-way: a goal that is completed is still
\* completed after any step that keeps it; cycling its task away from done
\* or toggling a sub-task back does not reset it.
C25_GoalCompletionOneWay ==
  [][planning' # planning =>
       \A j \in 1..Len(planning) : \A k \in 1..Len(planning') :
         (planning[j].completed /\ planning'[k].id = planning[j].id)
         => planning'[k].completed]_vars

\* the goal is completed and the task linked to it is no longer done
C25_Witness ==
  \E i \in 1..Len(tasks) :
    /\ tasks[i].linkedPlanningTaskId \in GoalIds
    /\ GoalOf(tasks[i].linkedPlanningTaskId).completed
    /\ tasks[i].status # "done"

\* C26: the balance totalXP - spentXP is at least 0 in every reachable
\* state: no redemption followed by task changes leaves spentXP above
\* totalXP.
C26_BalanceNonNegative == totalXP(tasks, logs) - spentXP >= 0

\* C27: from the fresh defaults on, spentXP is the sum over the rewards of
\* count x cost in every state, and no step removes a reward or changes the
\* id or the cost of one.
C27_SpentMatchesCounts ==
  /\ [](spentXP = Sum([i \in 1..Len(rewards) |-> rewards[i].count * rewards[i].cost]))
  /\ [][rewards' # rewards =>
          /\ Len(rewards') >= Len(rewards)
          /\ \A i \in 1..Len(rewards) :
               /\ rewards'[i].id = rewards[i].id
               /\ rewards'[i].cost = rewards[i].cost]_vars

\* a reward was registered and claimed, next to the starter rewards
C27_Witness ==
  /\ Len(rewards) > Len(DefaultRewards)
  /\ rewards[Len(rewards)].count = 1
  /\ spentXP = rewards[Len(rewards)].cost

\* C28: linking a goal without a sub-task template to a task changes that
\* task's title and linkedPlanningTaskId and nothing else, and leaves totalXP
\* as it was, whatever the task and its status.
C28_LinkKeepsTotalXP ==
  [][tasks' # tasks =>
       \A i \in 1..Len(tasks) : \A gid \in GoalIds :
         (/\ Len(GoalOf(gid).subTasks) = 0
          /\ handleLinkGoal(tasks[i].id, gid))
         => /\ tasks'[i] = [tasks[i] EXCEPT !.title = tasks'[i].title,
                                            !.linkedPlanningTaskId = gid]
            /\ \A j \in 1..Len(tasks) : j # i => tasks'[j] = tasks[j]
            /\ totalXP(tasks', logs') = totalXP(tasks, logs)]_vars

\* C29: in every reachable state, toggling the same sub-task twice in a row
\* gives back the owning task as it was, flags and status.
C29_DoubleToggleRestores ==
  \A i \in 1..Len(tasks) : \A k \in 1..Len(tasks[i].subTasks) :
    tasks[i].hasSubTasks =>
      toggleTask(toggleTask(tasks[i], tasks[i].subTasks[k].id),
                 tasks[i].subTasks[k].id) = tasks[i]

\* C22: a request that fails, by a rejection or by a text that does not
\* parse, leaves the insight slot as it was and changes nothing of tasks,
\* planning, logs, rewards, spentXP or totalXP.
C22_FailedRequestKeepsResult ==
  [][(aiCall = "pending" /\ aiCall' = "caught") =>
       /\ aiResult' = aiResult
       /\ ~aiLoading'
       /\ UNCHANGED <<tasks, planning, logs, rewards, spentXP>>
       /\ totalXP13(tasks') = totalXP13(tasks)]_vars

\* a request has failed while the slot held an earlier analysis
C22_Witness ==
  /\ aiCall = "caught"
  /\ aiResult = JSONparse(TextAnalysis).value
  /\ ~aiLoading

\* C24: the insights request is the one handler that suspends.  Its steps,
\* however they interleave with the handlers of the store, write nothing but
\* the slot and the loading flag and leave the page as it is; the handlers
\* of the store write nothing of the request; and while it is pending the
\* status and sub-task buttons, the start and stop of the tracker and the
\* tick of its interval are enabled, each where the page draws its control.
C24_RequestIsolated ==
  /\ [][aiVars' # aiVars => UNCHANGED <<appVars, launch, activeView>>]_vars
  /\ [][appVars' # appVars => UNCHANGED aiVars]_vars
  /\ [](aiCall = "pending" =>
          /\ activeView = "schedule" =>
               /\ \A id \in InsightTaskInputs :
                    ENABLED OnView("schedule", cycleStatus(id))
               /\ \A in \in InsightToggleInputs :
                    ENABLED OnView("schedule", toggleSub(in[1], in[2]))
          /\ activeView = "tracker" =>
               /\ (~timerRunning /\ Extras13 = 0) =>
                    ENABLED OnView("tracker", startTimer)
               /\ timerRunning => ENABLED OnView("tracker", stopTimer)
          /\ (intervals > 0 /\ timerSeconds < MaxSeconds) =>
               ENABLED WhileMounted(tick))

\* C30: every call of syncAI lowers the loading flag again in the end,
\* whether the request succeeds, is rejected, gives a text that does not parse
\* or the client cannot be built.
C30_LoadingEventuallyFalse == aiLoading ~> ~aiLoading

\* C21: at launch, each of the five stored records that is missing or
\* malformed gives its documented default (starter blocks, no goals, starter
\* rewards, 0 spent, no logs), the launch does not fail, and the other
\* records are loaded as stored.
C21_LaunchFallsBack ==
  launch # "opening" =>
    /\ launch = "mounted"
    /\ tasks = IF stored.tasks = Item(TextTasks)
               THEN << [PlainHighTask EXCEPT !.status = "done"] >>
               ELSE getDefaultProtocol
    /\ planning = <<>>
    /\ rewards = IF stored.rewards = Item(TextRewards)
                 THEN << [id |-> "r9", cost |-> 40, count |-> 1] >>
                 ELSE DefaultRewards
    /\ spentXP = IF stored.spent = Item(<<"4","0">>) THEN 40 ELSE 0
    /\ logs = <<>>

====
